---------------------------- MODULE Spec2Model ----------------------------
(***************************************************************************)
(* EnglishNet grade-tracking dashboard: the initial load, the batch-import *)
(* handlers (handleBatchStudentImport, handleBatchResultImport) and the    *)
(* handlers of the views of src/App.tsx, and the document-store calls of   *)
(* src/services/dataService.ts.  A handler is a sequence of steps: it runs *)
(* up to a store call it awaits and goes on when the call has settled;     *)
(* between the two the continuations of other handlers can run.            *)
(*                                                                         *)
(* Encoding.  A JavaScript string is a sequence of one-character strings   *)
(* (<<"E","1">> is "E1").  Characters outside ASCII are written with       *)
(* tokens: "I+" is U+0130 (capital I with dot above), "i-" is U+0131       *)
(* (small dotless i), "~" is U+0307 (combining dot above), and a white     *)
(* space character outside ASCII is "U+" and its code point.  A            *)
(* number with two decimals (a net score) is kept in hundredths: 734 is    *)
(* 7.34.  Entity ids, strings in the program, are natural numbers; a       *)
(* fresh id (Date.now() + Math.random()) is the next value of nextId.      *)
(* A calendar date is a day number.                                        *)
(***************************************************************************)
EXTENDS Integers, Sequences, FiniteSets, TLC

(***************************************************************************)
(* Strings                                                                 *)
(***************************************************************************)
Range(s) == {s[i] : i \in 1..Len(s)}

UpperChars == <<"A","B","C","D","E","F","G","H","I","J","K","L","M",
                "N","O","P","Q","R","S","T","U","V","W","X","Y","Z">>
LowerChars == <<"a","b","c","d","e","f","g","h","i","j","k","l","m",
                "n","o","p","q","r","s","t","u","v","w","x","y","z">>
DigitChars == <<"0","1","2","3","4","5","6","7","8","9">>

IndexIn(c, s) == CHOOSE i \in 1..Len(s) : s[i] = c
UpperSet == Range(UpperChars)
DigitSet == Range(DigitChars)
\* The lower-case letter of each capital of A-Z.
LowerOf == [c \in UpperSet |-> LowerChars[IndexIn(c, UpperChars)]]

\* White space as String.prototype.trim, parseInt and the regular
\* expression \s see it: WhiteSpace and LineTerminator of ECMAScript (tab,
\* line feed, vertical tab, form feed, carriage return, space, no-break
\* space, the byte order mark, the line and paragraph separators and the
\* space separators of Unicode).
IsWhiteSpace(c) ==
    c \in {" ", "\t", "\n", "\r", "\f", "U+000B", "U+00A0", "U+FEFF",
           "U+2028", "U+2029", "U+1680", "U+2000", "U+2001", "U+2002",
           "U+2003", "U+2004", "U+2005", "U+2006", "U+2007", "U+2008",
           "U+2009", "U+200A", "U+202F", "U+205F", "U+3000"}

RECURSIVE trimStart(_)
trimStart(s) ==
    IF s /= <<>> /\ IsWhiteSpace(Head(s)) THEN trimStart(Tail(s)) ELSE s

RECURSIVE trimEnd(_)
trimEnd(s) ==
    IF s /= <<>> /\ IsWhiteSpace(s[Len(s)])
    THEN trimEnd(SubSeq(s, 1, Len(s) - 1))
    ELSE s

\* String.prototype.trim
trim(s) == trimEnd(trimStart(s))

\* String.prototype.split(sep) for a one-character separator: empty pieces
\* are kept.
RECURSIVE splitFrom(_, _, _)
splitFrom(rest, sep, cur) ==
    IF rest = <<>> THEN <<cur>>
    ELSE IF Head(rest) = sep
         THEN <<cur>> \o splitFrom(Tail(rest), sep, <<>>)
         ELSE splitFrom(Tail(rest), sep, Append(cur, Head(rest)))

split(s, sep) == splitFrom(s, sep, <<>>)

\* String.prototype.split(/\s+/): the pieces between maximal runs of white
\* space.
RECURSIVE splitWsFrom(_, _)
splitWsFrom(rest, cur) ==
    IF rest = <<>> THEN <<cur>>
    ELSE IF IsWhiteSpace(Head(rest))
         THEN <<cur>> \o splitWsFrom(trimStart(rest), <<>>)
         ELSE splitWsFrom(Tail(rest), Append(cur, Head(rest)))

splitWs(s) == splitWsFrom(s, <<>>)

\* Array.prototype.join(sep)
RECURSIVE join(_, _)
join(parts, sep) ==
    IF parts = <<>> THEN <<>>
    ELSE IF Len(parts) = 1 THEN parts[1]
    ELSE parts[1] \o sep \o join(Tail(parts), sep)

\* line.split('\t').map(p => p.trim()).filter(p => p !== "")
tabParts(line) ==
    LET pieces  == split(line, "\t")
        trimmed == [i \in 1..Len(pieces) |-> trim(pieces[i])]
    IN  SelectSeq(trimmed, LAMBDA p : p /= <<>>)

\* One character under String.prototype.toLocaleLowerCase('tr'), whatever
\* follows it: capital I becomes the dotless i, the dotted capital becomes i.
toLocaleLowerCaseTrChar(c) ==
    IF c = "I" THEN "i-"
    ELSE IF c = "I+" THEN "i"
    ELSE IF c \in UpperSet THEN LowerOf[c]
    ELSE c

\* String.prototype.toLocaleLowerCase('tr').  The mapping depends on the
\* context: a capital I right before the combining dot becomes i and that
\* dot is dropped; every other character is mapped on its own.
RECURSIVE toLocaleLowerCaseTr(_)
toLocaleLowerCaseTr(s) ==
    IF s = <<>> THEN <<>>
    ELSE IF Head(s) = "I" /\ Len(s) >= 2 /\ s[2] = "~"
         THEN <<"i">> \o toLocaleLowerCaseTr(SubSeq(s, 3, Len(s)))
         ELSE <<toLocaleLowerCaseTrChar(Head(s))>> \o toLocaleLowerCaseTr(Tail(s))

\* String.prototype.toLowerCase (no locale): capital I becomes i, the dotted
\* capital becomes i followed by the combining dot.
RECURSIVE toLowerCase(_)
toLowerCase(s) ==
    IF s = <<>> THEN <<>>
    ELSE (IF Head(s) = "I+" THEN <<"i", "~">>
          ELSE IF Head(s) \in UpperSet THEN <<LowerOf[Head(s)]>>
               ELSE <<Head(s)>>) \o toLowerCase(Tail(s))

startsWith(s, p) == Len(p) <= Len(s) /\ SubSeq(s, 1, Len(p)) = p
endsWith(s, p) == Len(p) <= Len(s) /\ SubSeq(s, Len(s) - Len(p) + 1, Len(s)) = p
\* String.prototype.substring(from)
substringFrom(s, from) == SubSeq(s, from + 1, Len(s))
\* String.prototype.substring(0, to)
substringTo(s, to) == SubSeq(s, 1, to)

\* const norm = (str) => str.trim().toLocaleLowerCase('tr')
norm(str) == toLocaleLowerCaseTr(trim(str))

(***************************************************************************)
(* parseInt(string) with no radix.  The result is [nan, value]: nan is     *)
(* TRUE for NaN.  Leading white space is skipped, one sign is read, a      *)
(* 0x/0X prefix selects radix 16, and the longest prefix of digits is      *)
(* converted; what follows the digits is ignored.                          *)
(***************************************************************************)
HexLetters == <<"a","b","c","d","e","f">>

DigitValue(c, radix) ==
    IF c \in DigitSet THEN IndexIn(c, DigitChars) - 1
    ELSE IF radix = 16 /\ c \in Range(HexLetters) THEN 9 + IndexIn(c, HexLetters)
    ELSE IF radix = 16 /\ c \in {"A","B","C","D","E","F"}
         THEN 9 + IndexIn(toLocaleLowerCaseTrChar(c), HexLetters)
    ELSE -1

RECURSIVE digitsValue(_, _, _)
digitsValue(s, radix, acc) ==
    IF s = <<>> \/ DigitValue(Head(s), radix) < 0 THEN acc
    ELSE digitsValue(Tail(s), radix, acc * radix + DigitValue(Head(s), radix))

parseInt(str) ==
    LET s0    == trimStart(str)
        neg   == s0 /= <<>> /\ Head(s0) = "-"
        s1    == IF s0 /= <<>> /\ Head(s0) \in {"-", "+"} THEN Tail(s0) ELSE s0
        hex   == Len(s1) >= 2 /\ s1[1] = "0" /\ s1[2] \in {"x", "X"}
        radix == IF hex THEN 16 ELSE 10
        s2    == IF hex THEN SubSeq(s1, 3, Len(s1)) ELSE s1
        none  == s2 = <<>> \/ DigitValue(Head(s2), radix) < 0
        mag   == digitsValue(s2, radix, 0)
    IN  IF none THEN [nan |-> TRUE, value |-> 0]
        ELSE [nan |-> FALSE, value |-> IF neg THEN 0 - mag ELSE mag]

(***************************************************************************)
(* Arrays and Maps                                                         *)
(***************************************************************************)
\* Array.prototype.find and findIndex, given the positions (from 1) of the
\* elements that pass the test: the first of them; 0 when none passes.
firstIndex(passing) ==
    IF passing = {} THEN 0
    ELSE CHOOSE i \in passing : \A j \in passing : i <= j

\* A JavaScript Map is the sequence of its entries <<key, value>> in
\* insertion order.
mapHas(m, k) == \E i \in 1..Len(m) : m[i][1] = k
mapGet(m, k) == m[CHOOSE i \in 1..Len(m) : m[i][1] = k][2]
mapSet(m, k, v) ==
    IF mapHas(m, k)
    THEN [i \in 1..Len(m) |-> IF m[i][1] = k THEN <<k, v>> ELSE m[i]]
    ELSE Append(m, <<k, v>>)

\* Array.prototype.sort((a, b) => b.name.length - a.name.length): stable,
\* longest name first.
RECURSIVE insertByNameLength(_, _)
insertByNameLength(sorted, e) ==
    IF sorted = <<>> THEN <<e>>
    ELSE IF Len(Head(sorted).name) >= Len(e.name)
         THEN <<Head(sorted)>> \o insertByNameLength(Tail(sorted), e)
         ELSE <<e>> \o sorted

RECURSIVE sortByNameLengthDesc(_)
sortByNameLengthDesc(arr) ==
    IF arr = <<>> THEN <<>>
    ELSE insertByNameLength(sortByNameLengthDesc(SubSeq(arr, 1, Len(arr) - 1)),
                            arr[Len(arr)])

(***************************************************************************)
(* Net score                                                               *)
(***************************************************************************)
\* A variant that cuts the digits after the second decimal instead of rounding.
toFixed2_truncated(micro) == micro \div 10000

\* Number.prototype.toFixed(2) followed by parseFloat, on a value given in
\* units of 10^-6: the nearest multiple of 0.01 (a tie goes away from
\* zero), in hundredths.
toFixed2(micro) ==
    IF micro >= 0 THEN (micro + 5000) \div 10000
    ELSE 0 - ((0 - micro + 5000) \div 10000)

\* correct - (incorrect * 0.33) in units of 10^-6.  fpError is the rounding
\* error of the double-precision product and difference, which is below
\* 10^-14 for these magnitudes and so at most one unit here.
netMicro(correct, incorrect, fpError) ==
    correct * 1000000 - incorrect * 330000 + fpError

\* dataService.calculateNet
calculateNet(correct, incorrect, fpError) ==
    toFixed2(netMicro(correct, incorrect, fpError))

\* The net computed inline by the result import.
importNet(correct, incorrect, fpError) ==
    toFixed2(correct * 1000000 - (incorrect * 330000) + fpError)

(***************************************************************************)
(* Bounds of the model                                                     *)
(***************************************************************************)
\* Lines of one pasted text.
MaxLines == 2
\* Batch imports started with a freely chosen text in one behaviour.
MaxImports == 1
\* Times the last batch import is run again with the same text.
MaxRepeats == 1
\* Handlers of the views and batch imports invoked in one behaviour of a
\* session that uses the views.
MaxOps == 2
\* Store calls of the handlers of the views that have not settled yet.
MaxPending == 2
\* Store calls that fail.
MaxFailures == 1

(***************************************************************************)
(* Entities (src/types.ts)                                                 *)
(***************************************************************************)
\* targetCorrect?: number, when the field is absent.
Undefined == -1
\* new Date().toISOString().split('T')[0], the day of the session.
Today == 9
\* The exam format is fixed at ten questions.
QuestionCount == 10
\* The default targetCorrect of a student.
DefaultTargetCorrect == 6

Classroom(id, name) == [id |-> id, name |-> name]

ExamDefinition(id, name, date) == [id |-> id, name |-> name, date |-> date]

Student(id, name, surname, classroomId, targetCorrect) ==
    [id |-> id, name |-> name, surname |-> surname,
     classroomId |-> classroomId, targetCorrect |-> targetCorrect]

ExamResult(id, studentId, examDef, correct, incorrect, empty, net, status) ==
    [id |-> id, studentId |-> studentId, examId |-> examDef.id,
     examName |-> examDef.name, date |-> examDef.date,
     correct |-> correct, incorrect |-> incorrect, empty |-> empty,
     net |-> net, status |-> status]

(***************************************************************************)
(* The data the session starts from: what fetchAllData loaded.             *)
(***************************************************************************)
Class8A == Classroom(1, <<"8","A">>)
Class8B == Classroom(2, <<"8","B">>)
InitClasses == <<Class8A, Class8B>>

StudentA == Student(11, <<"A","l">>, <<"V","e">>, 1, 6)
StudentB == Student(12, <<"A","y">>, <<"D","e">>, 1, 6)
StudentC == Student(13, <<"M","e">>, <<"C","a">>, 1, Undefined)
StudentD == Student(14, <<"Z","e">>, <<"A","k">>, 2, 6)
InitStudents == <<StudentA, StudentB, StudentC, StudentD>>
\* A second student of class 8A with the full name of the first, as the
\* student form (which does not compare names) can create.
StudentA2 == Student(15, <<"A","L">>, <<"V","E">>, 1, 6)
InitStudentsChoices == {InitStudents, Append(InitStudents, StudentA2)}

ExamE1 == ExamDefinition(21, <<"E","1">>, 5)
InitExamDefinitions == <<ExamE1>>

\* Results that may exist before the session: one of a student the texts
\* name, one (attended or missing) of a student they may leave out.
PriorA == ExamResult(31, 11, ExamE1, 4, 4, 2, 268, "ATTENDED")
PriorC == ExamResult(32, 13, ExamE1, 9, 0, 1, 900, "ATTENDED")
PriorCMissing == ExamResult(32, 13, ExamE1, 0, 0, 0, 0, "MISSING")
InitExamsChoices == {<<>>, <<PriorA>>, <<PriorC>>, <<PriorA, PriorCMissing>>}

\* The first id the session hands out.
FirstFreshId == 41

(***************************************************************************)
(* Pasted texts                                                            *)
(***************************************************************************)
tabLine(fields) == join(fields, <<"\t">>)
spaceLine(fields) == join(fields, <<" ">>)

ResultLines ==
    { \* tab-separated rows of the three students of class 8A
      tabLine(<< <<"E","1">>, <<"A","l"," ","V","e">>, <<"8">>, <<"2">> >>),
      tabLine(<< <<"E","1">>, <<"a","y"," ","d","e">>, <<"6">>, <<"3">> >>),
      tabLine(<< <<"e","1">>, <<"M","e"," ","C","a">>, <<"5">>, <<"5">> >>),
      \* scores that sum to 11, a score that is no number, a decimal score
      tabLine(<< <<"E","1">>, <<"A","l"," ","V","e">>, <<"6">>, <<"5">> >>),
      tabLine(<< <<"E","1">>, <<"A","y"," ","D","e">>, <<"x">>, <<"2">> >>),
      tabLine(<< <<"E","1">>, <<"A","y"," ","D","e">>, <<"3",".","5">>, <<"2">> >>),
      \* an exam that is not defined, tab- and space-separated
      tabLine(<< <<"E","1","2">>, <<"A","y"," ","D","e">>, <<"6">>, <<"3">> >>),
      spaceLine(<< <<"E","1","2">>, <<"A","l">>, <<"V","e">>, <<"8">>, <<"2">> >>),
      \* a student that does not exist
      tabLine(<< <<"E","1">>, <<"Z","z"," ","Z","z">>, <<"8">>, <<"2">> >>),
      \* too few fields
      spaceLine(<< <<"E","1">>, <<"8">> >>),
      \* a space-separated row of a defined exam
      spaceLine(<< <<"E","1">>, <<"A","l">>, <<"V","e">>, <<"7">>, <<"1">> >>),
      \* a negative score
      tabLine(<< <<"E","1">>, <<"A","y"," ","D","e">>, <<"-","1">>, <<"5">> >>),
      \* a space-separated row that starts with the name of no exam
      spaceLine(<< <<"X","9">>, <<"A","l">>, <<"V","e">>, <<"8">>, <<"2">> >>),
      \* a blank line
      <<" ">> }

\* The texts of up to MaxLines lines of a pool that the import box lets
\* the user submit: its button is disabled while text.trim() is empty
\* (line 232).
TextsOf(pool) ==
    { t \in { join(ls, <<"\n">>) :
                ls \in UNION { [1..n -> pool] : n \in 1..MaxLines } } :
        trim(t) /= <<>> }

ResultTexts == TextsOf(ResultLines)

\* A variant that keeps the blank lines.
nonBlankLines_unfiltered(text) == split(text, "\n")

\* text.split('\n').filter(l => l.trim().length > 0)
nonBlankLines(text) ==
    SelectSeq(split(text, "\n"), LAMBDA l : Len(trim(l)) > 0)

\* The rounding error of one double-precision net computation, in units of
\* 10^-6 (see netMicro).
FpErrors == {-1, 0, 1}

\* The texts pasted in the sessions that also use the views; the last of
\* the roster texts has no line of two fields.
LiveResultTexts ==
    { tabLine(<< <<"E","1">>, <<"A","l"," ","V","e">>, <<"8">>, <<"2">> >>),
      tabLine(<< <<"E","1","2">>, <<"A","y"," ","D","e">>, <<"6">>, <<"3">> >>),
      join(<< tabLine(<< <<"E","1">>, <<"A","l"," ","V","e">>, <<"8">>, <<"2">> >>),
              spaceLine(<< <<"E","1">>, <<"8">> >>) >>, <<"\n">>) }

LiveRosterTexts ==
    { spaceLine(<< <<"A","l">>, <<"V","e">>, <<"8","B">> >>),
      join(<< spaceLine(<< <<"N","e">>, <<"W","u">>, <<"8","C">> >>),
              <<"8","A">> >>, <<"\n">>),
      <<"8","A">> }

\* What the forms of the views are filled with: the name and surname of the
\* student form, the name of the class dialog, the name and date of the
\* exam definition dialog, the score pairs of the exam modal.
StudentFormNames == { << <<"N","e">>, <<"W","u">> >> }
ClassNameInputs == { <<"8","C">> }
DefinitionInputs == { << <<"E","2">>, 8 >> }
ManualScores == {<<7, 1>>, <<6, 5>>}

\* 'Bilinmeyen Sinav' (line 1963), with the dotless i as its token.
UnknownExamName ==
    <<"B","i","l","i","n","m","e","y","e","n"," ","S","i-","n","a","v">>

\* What stands for a student or a definition that a lookup did not find
\* (undefined in the program, and not read).
NoStudent == Student(0, <<>>, <<>>, 0, Undefined)
NoExamDefinition == ExamDefinition(0, <<>>, 0)

(***************************************************************************)
(* State                                                                   *)
(***************************************************************************)
VARIABLES
    \* React state of App (lines 273-297)
    students, classes, exams, examDefinitions, isLoading, isBatchModalOpen,
    errorMsg, batchModalMode,
    \* the dialog on screen (exam modal, student form, input or confirm
    \* dialog) with what its callback has captured
    dialog,
    \* the document store: the documents of each collection
    dbStudents, dbClasses, dbResults, dbDefs,
    \* the position of the import handler (or of the initial load) and its
    \* locals; the store call it is suspended on
    pc, lines, lineIdx,
    tempClasses, tempStudents, tempExamDefs, tempResults,
    addedCount, updatedCount, skippedCount, missingCount,
    processedExamStudentIds, involvedClassIdsByExam, entryIdx, studentIdx,
    newStudentsPayload, classNamesFound, createdClasses, classIdx, payloadIdx,
    awaited,
    \* the handlers of the views that are suspended on a store call
    pending,
    \* the alert on screen and the alerts of the current invocation
    alertShown, alertCount,
    \* environment: the next fresh id, the store calls that failed so far,
    \* the kind of session (which texts are pasted, whether the views are
    \* used)
    nextId, failures, scope,
    \* observation: the store calls of the current import, the settled store
    \* calls of the handlers of the views, the text of the last batch import,
    \* the handler invoked last, what the run before a repeated run reported
    \* and left in the store, the data the current run started from, whether
    \* a handler has started while a store call of another was outstanding
    writes, viewCalls, text, handlerKind, lastAlert, repeatOf,
    prevAdded, prevUpdated, prevDbResults, startExams, startDefs, overlapped,
    nImports, nRepeats, nOps,
    \* the net computations: the scores given, the values returned
    netInput, netOutput,
    \* a computation of the app followed on its own: what it is applied to,
    \* what it has returned so far
    probe, answer

listVars == <<students, classes, exams, examDefinitions>>
screenVars == <<isLoading, isBatchModalOpen, errorMsg, batchModalMode>>
appVars == <<listVars, screenVars>>
dbVars == <<dbStudents, dbClasses, dbResults, dbDefs>>
resultVars ==
    <<tempExamDefs, tempResults, addedCount, updatedCount, skippedCount,
      missingCount, processedExamStudentIds, involvedClassIdsByExam,
      lineIdx, entryIdx, studentIdx>>
rosterVars ==
    <<tempClasses, newStudentsPayload, classNamesFound, createdClasses,
      classIdx, payloadIdx>>
handlerVars == <<pc, lines, tempStudents, resultVars, rosterVars, awaited>>
alertVars == <<alertShown, alertCount>>
viewVars == <<dialog, pending, viewCalls>>
netVars == <<netInput, netOutput, probe, answer>>
runVars ==
    <<text, lastAlert, repeatOf, prevAdded, prevUpdated, prevDbResults,
      startExams, startDefs, nImports, nRepeats>>
obsVars == <<runVars, handlerKind, overlapped, nOps>>
vars ==
    <<appVars, dbVars, handlerVars, alertVars, viewVars, nextId, failures,
      scope, writes, obsVars, netVars>>

\* No dialog is on screen.
NoDialog ==
    [kind |-> "none", handler |-> "none", id |-> 0, examId |-> 0, captured |-> <<>>]

\* What the store holds when the session starts, as earlier sessions left
\* it; the sessions that use the views start from one store.
InitStore ==
    /\ scope \in {"texts", "views"}
    /\ \E studs \in IF scope = "texts" THEN InitStudentsChoices ELSE {InitStudents} :
        /\ dbStudents = Range(studs)
        /\ dbResults \in {Range(e) :
                            e \in IF scope = "views" THEN {<<PriorA>>}
                                  ELSE IF studs = InitStudents THEN InitExamsChoices
                                  ELSE {<<>>}}
    /\ dbClasses = Range(InitClasses)
    /\ dbDefs = Range(InitExamDefinitions)

\* No handler has run yet.
InitHandlers ==
    /\ errorMsg = "none"
    /\ isBatchModalOpen = FALSE /\ batchModalMode = "student"
    /\ dialog = NoDialog /\ pending = <<>> /\ awaited = <<>>
    /\ lines = <<>> /\ lineIdx = 0
    /\ tempClasses = <<>> /\ tempStudents = <<>>
    /\ tempExamDefs = <<>> /\ tempResults = <<>>
    /\ addedCount = 0 /\ updatedCount = 0
    /\ skippedCount = 0 /\ missingCount = 0
    /\ processedExamStudentIds = <<>> /\ involvedClassIdsByExam = <<>>
    /\ entryIdx = 0 /\ studentIdx = 0
    /\ newStudentsPayload = <<>> /\ classNamesFound = <<>>
    /\ createdClasses = <<>> /\ classIdx = 0 /\ payloadIdx = 0
    /\ alertShown = "none" /\ alertCount = 0
    /\ nextId = FirstFreshId /\ failures = 0
    /\ writes = <<>> /\ viewCalls = <<>> /\ text = <<>> /\ handlerKind = "none"
    /\ lastAlert = "none" /\ repeatOf = "none"
    /\ prevAdded = 0 /\ prevUpdated = 0 /\ prevDbResults = {}
    /\ startExams = <<>> /\ startDefs = <<>> /\ overlapped = FALSE
    /\ nImports = 0 /\ nRepeats = 0 /\ nOps = 0

\* App.tsx lines 273-297: the useState initial values, before the effect of
\* the initial load has run.
InitApp ==
    /\ InitStore
    /\ InitHandlers
    /\ students = <<>> /\ classes = <<>>
    /\ exams = <<>> /\ examDefinitions = <<>>
    /\ isLoading = TRUE
    /\ pc = "load"

Init ==
    /\ InitApp
    /\ netInput = <<0, 0>>
    /\ netOutput = {}
    /\ probe = <<>>
    /\ answer = <<>>

\* The session that uses the views.
InitViews == Init /\ scope = "views"

(***************************************************************************)
(* The document store (src/services/dataService.ts)                        *)
(***************************************************************************)
docExists(col, id) == \E d \in col : d.id = id
\* setDoc(doc(db, col, id), payload): the document is created or replaced.
setDoc(col, payload) == {d \in col : d.id /= payload.id} \cup {payload}
\* deleteDoc(doc(db, col, id))
deleteDoc(col, id) == {d \in col : d.id /= id}
\* updateDoc fails on a document that is not in the collection.
updateRejected(col, id) == ~docExists(col, id)
\* updateDoc(doc(db, col, id), payload) with every field of the document: the
\* document is replaced; a collection without it stays as it is.
updateDoc(col, payload) == {IF d.id = payload.id THEN payload ELSE d : d \in col}

\* dataService.ts lines 14-34: the documents of the four collections, in the
\* order of their ids; when a read is rejected the catch block returns four
\* empty arrays.  threw says whether an error leaves the function: never.
fetchAllData(studentDocs, classDocs, examDocs, defDocs, rejected) ==
    LET docs(col) ==
            IF rejected THEN <<>>
            ELSE CHOOSE f \in [1..Cardinality(col) -> col] :
                    \A i, j \in 1..Cardinality(col) : i < j => f[i].id < f[j].id
    IN  [threw |-> FALSE, students |-> docs(studentDocs), classes |-> docs(classDocs),
         exams |-> docs(examDocs), examDefinitions |-> docs(defDocs)]

\* apiAddStudent: setDoc of id, name, surname and classroomId; targetCorrect
\* is not part of the payload.
apiAddStudent(col, student) ==
    setDoc(col, Student(student.id, student.name, student.surname,
                        student.classroomId, Undefined))
\* apiUpdateStudent: updateDoc of name, surname and classroomId; the other
\* fields of the document stay.
apiUpdateStudent(col, student) ==
    {IF d.id = student.id
     THEN [d EXCEPT !.name = student.name, !.surname = student.surname,
                    !.classroomId = student.classroomId]
     ELSE d : d \in col}
apiDeleteStudent(col, id) == deleteDoc(col, id)
\* apiDeleteMultipleStudents: one batch that deletes each of the ids.  No
\* handler of App.tsx calls it.
apiDeleteMultipleStudents(col, ids) == {d \in col : d.id \notin ids}

\* apiAddClass: setDoc of a copy of the classroom.
apiAddClass(col, classroom) == setDoc(col, classroom)
\* apiUpdateClass: updateDoc with every field of the classroom; the call is
\* rejected when the document does not exist (see updateRejected).
apiUpdateClass(col, classroom) == updateDoc(col, classroom)
apiDeleteClass(col, id) == deleteDoc(col, id)

\* apiAddExamResult: setDoc of a copy of the result.
apiAddExamResult(col, result) == setDoc(col, result)
\* apiUpdateExamResult: updateDoc with every field of the result; the call
\* is rejected when the document does not exist (see updateRejected).
apiUpdateExamResult(col, result) == updateDoc(col, result)
apiDeleteExamResult(col, id) == deleteDoc(col, id)

\* apiAddExamDefinition: setDoc of a copy of the definition.
apiAddExamDefinition(col, def) == setDoc(col, def)
\* apiUpdateExamDefinition: updateDoc with every field of the definition;
\* the call is rejected when the document does not exist.
apiUpdateExamDefinition(col, def) == updateDoc(col, def)

\* A variant that leaves the definition in the store.
apiDeleteExamDefinition_none(col, id) == col

apiDeleteExamDefinition(col, id) == deleteDoc(col, id)

\* One entry of a log of store calls.
storeCall(api, id, ok) == [api |-> api, id |-> id, ok |-> ok]

\* A store call that has been issued and has not settled: the function, the
\* id of its document, the value passed.
call(api, id, data) == [api |-> api, id |-> id, data |-> data]

(***************************************************************************)
(* The initial load: initData (App.tsx 377-398)                            *)
(***************************************************************************)
\* The effect of the first render.  rejected says whether the store rejects
\* a read; it is counted among the failed store calls.  The lists are set
\* from what fetchAllData returns; the catch block sets the message;
\* finally the loading screen is left.
initData ==
    /\ pc = "load"
    /\ \E rejected \in BOOLEAN :
       \E data \in {fetchAllData(dbStudents, dbClasses, dbResults, dbDefs, rejected)} :
        /\ rejected => failures < MaxFailures
        /\ failures' = failures + (IF rejected THEN 1 ELSE 0)
        /\ students' = IF data.threw THEN students ELSE data.students
        /\ classes' = IF data.threw THEN classes ELSE data.classes
        /\ exams' = IF data.threw THEN exams ELSE data.exams
        /\ examDefinitions' =
             IF data.threw THEN examDefinitions ELSE data.examDefinitions
        /\ errorMsg' = IF data.threw THEN "load" ELSE "none"
    /\ isLoading' = FALSE
    /\ pc' = "idle"
    /\ handlerKind' = "initData"
    /\ UNCHANGED <<isBatchModalOpen, batchModalMode, dbVars, lines, tempStudents,
                   resultVars, rosterVars, awaited, alertVars, viewVars, nextId,
                   scope, writes, runVars, overlapped, nOps, netVars>>

\* The views take the user's clicks: the loading screen and the error
\* screen replace them (lines 1653-1684), an alert blocks them, and the
\* import box and the dialogs are overlays above them.
ViewShown ==
    /\ pc = "idle"
    /\ ~isLoading /\ errorMsg = "none"
    /\ ~isBatchModalOpen
    /\ dialog.kind = "none"

\* The session may invoke one more handler of the views.
OpsLeft == scope = "views" /\ nOps + nImports < MaxOps

\* The session may start one more batch import.
ImportsLeft ==
    /\ nImports < MaxImports
    /\ scope = "views" => nOps + nImports < MaxOps

\* The session may run the last batch import again.
RepeatsLeft == nRepeats < MaxRepeats /\ nOps = 0

(***************************************************************************)
(* Result import: handleBatchResultImport (App.tsx 771-988)                *)
(***************************************************************************)
fullName(first, second) == first \o <<" ">> \o second

\* Lines 792-805: the fields of a line, by tabs, else the last two of at
\* least four blank-separated words with the words before them joined.
resultParts(line) ==
    LET parts      == tabParts(line)
        spaceParts == splitWs(trim(line))
        n          == Len(spaceParts)
    IN  IF Len(parts) < 3 /\ n >= 4
        THEN <<join(SubSeq(spaceParts, 1, n - 2), <<" ">>),
               spaceParts[n - 1], spaceParts[n]>>
        ELSE parts

\* A variant that takes any two scores.
scoreRejected_never(correct, incorrect) == FALSE

\* Line 815, on the two parseInt results.
scoreRejected(correct, incorrect) ==
    correct.nan \/ incorrect.nan \/ correct.value + incorrect.value > QuestionCount

\* Line 833: the first definition, longest name first, whose name starts
\* the merged field.
matchExamPrefix(sortedExams, mixedStr) ==
    firstIndex({k \in 1..Len(sortedExams) :
                    startsWith(toLocaleLowerCaseTr(mixedStr),
                               toLocaleLowerCaseTr(sortedExams[k].name))})

\* Lines 841-846: the first student whose full name, in either order, ends
\* the merged field.
matchStudentSuffix(studs, mixedStr) ==
    firstIndex({k \in 1..Len(studs) :
        \/ endsWith(toLocaleLowerCaseTr(mixedStr),
                    toLocaleLowerCaseTr(fullName(studs[k].name, studs[k].surname)))
        \/ endsWith(toLocaleLowerCaseTr(mixedStr),
                    toLocaleLowerCaseTr(fullName(studs[k].surname, studs[k].name)))})

rowOf(kind, correct, incorrect, examNameStr, studentNameStr, defs) ==
    [kind |-> kind, correct |-> correct, incorrect |-> incorrect,
     examNameStr |-> examNameStr, studentNameStr |-> studentNameStr,
     defs |-> defs]

\* Lines 792-864: a line up to the exam and student strings it names.
\* kind is "fields" (fewer than three fields), "score" (scores rejected),
\* "unidentified" (a merged field that names no exam and no student) or
\* "named"; defs is tempExamDefs as the row leaves it (sorted in place when
\* the merged field is taken apart).
identifyRow(line, defs, studs) ==
    LET parts == resultParts(line)
        n     == Len(parts)
    IN  IF n < 3 THEN rowOf("fields", 0, 0, <<>>, <<>>, defs)
        ELSE
        LET correctP   == parseInt(parts[n - 1])
            incorrectP == parseInt(parts[n])
            rest       == SubSeq(parts, 1, n - 2)
        IN  IF scoreRejected(correctP, incorrectP)
            THEN rowOf("score", 0, 0, <<>>, <<>>, defs)
            ELSE IF Len(rest) >= 2
            THEN rowOf("named", correctP.value, incorrectP.value,
                       join(SubSeq(rest, 1, Len(rest) - 1), <<" ">>),
                       rest[Len(rest)], defs)
            ELSE
            LET mixedStr    == rest[1]
                sortedExams == sortByNameLengthDesc(defs)
                e           == matchExamPrefix(sortedExams, mixedStr)
                s           == matchStudentSuffix(studs, mixedStr)
                nameSurname == fullName(studs[s].name, studs[s].surname)
                surnameName == fullName(studs[s].surname, studs[s].name)
                studentStr  ==
                    IF endsWith(toLocaleLowerCaseTr(mixedStr),
                                toLocaleLowerCaseTr(nameSurname))
                    THEN nameSurname ELSE surnameName
            IN  IF e > 0
                THEN rowOf("named", correctP.value, incorrectP.value,
                           sortedExams[e].name,
                           trim(substringFrom(mixedStr, Len(sortedExams[e].name))),
                           sortedExams)
                ELSE IF s > 0
                THEN rowOf("named", correctP.value, incorrectP.value,
                           trim(substringTo(mixedStr, Len(mixedStr) - Len(studentStr))),
                           studentStr, sortedExams)
                ELSE rowOf("unidentified", 0, 0, <<>>, <<>>, sortedExams)

\* Line 867: the definition whose normalized name is the row's exam name.
resolveExam(defs, examNameStr) ==
    firstIndex({k \in 1..Len(defs) : norm(defs[k].name) = norm(examNameStr)})

\* A variant that takes the last student of that name.
resolveStudent_last(studs, studentNameStr) ==
    LET named == {k \in 1..Len(studs) :
            \/ norm(fullName(studs[k].name, studs[k].surname)) = norm(studentNameStr)
            \/ norm(fullName(studs[k].surname, studs[k].name)) = norm(studentNameStr)}
    IN  IF named = {} THEN 0 ELSE CHOOSE i \in named : \A j \in named : j <= i

\* Lines 883-886: the student whose full name, in either order, is the
\* row's student name.
resolveStudent(studs, studentNameStr) ==
    firstIndex({k \in 1..Len(studs) :
        \/ norm(fullName(studs[k].name, studs[k].surname)) = norm(studentNameStr)
        \/ norm(fullName(studs[k].surname, studs[k].name)) = norm(studentNameStr)})

\* Lines 907 and 952: the result of a student for an exam.
findResult(results, studentId, examId) ==
    firstIndex({k \in 1..Len(results) :
                    results[k].studentId = studentId /\ results[k].examId = examId})

\* Lines 896-901: the pair is recorded as seen, the classroom as involved.
trackParticipation(m, examId, member) ==
    mapSet(m, examId, (IF mapHas(m, examId) THEN mapGet(m, examId) ELSE {}) \cup {member})

\* Variants: no student is ever marked absent; a student is marked absent
\* whatever results there are already.
absentNeeded_never(student, processedStudentIds, results, examId) == FALSE
absentNeeded_unseenOnly(student, processedStudentIds, results, examId) ==
    student.id \notin processedStudentIds

\* Lines 950-954: the student gets a MISSING result.
absentNeeded(student, processedStudentIds, results, examId) ==
    /\ student.id \notin processedStudentIds
    /\ findResult(results, student.id, examId) = 0

\* A variant in which a rejected store call does not stop the handler.
continuation_ignoringFailure(aborted, onward) == onward

\* try/catch of the import handlers (lines 694/762-764, 781/982-984): an
\* awaited store call that rejects throws into the catch block, which shows
\* the failure alert; otherwise the handler goes on.
continuation(aborted, onward) == IF aborted THEN "alert" ELSE onward

\* Lines 771-788: the handler starts on `t`.
BeginResultImport(t) ==
    /\ isLoading' = TRUE
    /\ lines' = nonBlankLines(t)
    /\ addedCount' = 0 /\ updatedCount' = 0
    /\ skippedCount' = 0 /\ missingCount' = 0
    /\ tempExamDefs' = examDefinitions
    /\ tempStudents' = students
    /\ tempResults' = exams
    /\ processedExamStudentIds' = <<>>
    /\ involvedClassIdsByExam' = <<>>
    /\ lineIdx' = 1 /\ entryIdx' = 1 /\ studentIdx' = 1
    /\ pc' = IF nonBlankLines(t) = <<>> THEN "result_absent" ELSE "result_loop"
    /\ alertShown' = "none" /\ alertCount' = 0
    /\ writes' = <<>>
    /\ text' = t /\ handlerKind' = "result"
    /\ startExams' = exams /\ startDefs' = examDefinitions
    /\ overlapped' = (overlapped \/ pending /= <<>>)
    /\ UNCHANGED <<listVars, isBatchModalOpen, errorMsg, batchModalMode,
                   dbVars, rosterVars, awaited, viewVars, nextId, failures,
                   scope, lastAlert, nOps, netVars>>

\* The user pastes a text into the result import box and submits it.  The
\* box is the modal, open in the mode of the handler (lines 1876-1880).
StartResultImport ==
    /\ pc = "idle"
    /\ isBatchModalOpen /\ batchModalMode = "result"
    /\ ImportsLeft
    /\ \E t \in IF scope = "texts" THEN ResultTexts ELSE LiveResultTexts :
         BeginResultImport(t)
    /\ nImports' = nImports + 1
    /\ repeatOf' = "none"
    /\ prevAdded' = 0 /\ prevUpdated' = 0 /\ prevDbResults' = {}
    /\ UNCHANGED nRepeats

\* The user submits the text of the last result import again, with nothing
\* done in between but the opening of the modal.
RepeatResultImport ==
    /\ pc = "idle"
    /\ isBatchModalOpen /\ batchModalMode = "result"
    /\ handlerKind = "result"
    /\ RepeatsLeft
    /\ BeginResultImport(text)
    /\ nRepeats' = nRepeats + 1
    /\ repeatOf' = lastAlert
    /\ prevDbResults' = dbResults
    /\ UNCHANGED <<prevAdded, prevUpdated, nImports>>

\* Lines 866-932 up to the store calls: what a line resolves to, given the
\* working copies.  creates: an exam definition is created for it;
\* accepted: it reaches the result write once its definition is there;
\* resIdx: the result it updates (0: it adds one).
resolveIdentified(row, studs, results, freshId) ==
    LET named    == row.kind = "named"
        defIdx   == IF named THEN resolveExam(row.defs, row.examNameStr) ELSE 0
        creates  == named /\ defIdx = 0 /\ Len(row.examNameStr) > 0
        examDef  == IF defIdx > 0 THEN row.defs[defIdx]
                    ELSE ExamDefinition(freshId, row.examNameStr, Today)
        stuIdx   == IF named /\ (defIdx > 0 \/ creates)
                    THEN resolveStudent(studs, row.studentNameStr)
                    ELSE 0
        student  == IF stuIdx > 0 THEN studs[stuIdx] ELSE NoStudent
        resIdx   == IF stuIdx > 0
                    THEN findResult(results, student.id, examDef.id)
                    ELSE 0
        resultId == IF resIdx > 0 THEN results[resIdx].id
                    ELSE freshId + (IF creates THEN 1 ELSE 0)
    IN  [kind |-> row.kind, defs |-> row.defs,
         examNameStr |-> row.examNameStr, studentNameStr |-> row.studentNameStr,
         correct |-> row.correct, incorrect |-> row.incorrect,
         creates |-> creates, examDef |-> examDef,
         accepted |-> stuIdx > 0, student |-> student,
         resIdx |-> resIdx, resultId |-> resultId,
         idx |-> firstIndex({k \in 1..Len(results) : results[k].id = resultId})]

resolveRow(line, defs, studs, results, freshId) ==
    resolveIdentified(identifyRow(line, defs, studs), studs, results, freshId)

\* A variant that writes the row as MISSING.
resultData_missing(id, r, fpError) ==
    ExamResult(id, r.student.id, r.examDef, r.correct, r.incorrect,
               QuestionCount - (r.correct + r.incorrect),
               importNet(r.correct, r.incorrect, fpError), "MISSING")

\* Lines 904-919: the result a row writes.
resultData(id, r, fpError) ==
    ExamResult(id, r.student.id, r.examDef, r.correct, r.incorrect,
               QuestionCount - (r.correct + r.incorrect),
               importNet(r.correct, r.incorrect, fpError), "ATTENDED")

\* What the import handlers leave alone at each of their steps.
ImportFrame ==
    UNCHANGED <<listVars, screenVars, lines, tempStudents, viewVars, scope,
                obsVars, netVars>>

\* Lines 790-936, one line of the text up to its first store call.  A line
\* that yields no result is counted as skipped; a line that names an exam
\* that is not defined issues apiAddExamDefinition (line 872); any other
\* line records the participation and issues the result write (line 923 or
\* 929).  fpError is the rounding error of the net computation.
ResultLineStep ==
    /\ pc = "result_loop"
    /\ \E r \in {resolveRow(lines[lineIdx], tempExamDefs, tempStudents,
                            tempResults, nextId)} :
       \E fpError \in FpErrors :
       \E written \in {resultData(r.resultId, r, fpError)} :
        LET reached == r.accepted /\ ~r.creates
            skipped == ~r.accepted /\ ~r.creates
            last    == lineIdx = Len(lines)
        IN  /\ fpError /= 0 => reached
            /\ tempExamDefs' = r.defs
            /\ processedExamStudentIds' =
                 IF reached
                 THEN trackParticipation(processedExamStudentIds, r.examDef.id,
                                         r.student.id)
                 ELSE processedExamStudentIds
            /\ involvedClassIdsByExam' =
                 IF reached
                 THEN trackParticipation(involvedClassIdsByExam, r.examDef.id,
                                         r.student.classroomId)
                 ELSE involvedClassIdsByExam
            /\ awaited' =
                 IF r.creates
                 THEN <<call("apiAddExamDefinition", r.examDef.id, r.examDef)>>
                 ELSE IF reached
                 THEN <<call(IF r.resIdx > 0 THEN "apiUpdateExamResult"
                             ELSE "apiAddExamResult", r.resultId, written)>>
                 ELSE <<>>
            /\ nextId' = nextId + (IF r.creates \/ (reached /\ r.resIdx = 0)
                                   THEN 1 ELSE 0)
            /\ skippedCount' = skippedCount + (IF skipped THEN 1 ELSE 0)
            /\ lineIdx' = IF skipped THEN lineIdx + 1 ELSE lineIdx
            /\ pc' = IF r.creates THEN "result_await_def"
                     ELSE IF reached THEN "result_await_res"
                     ELSE IF last THEN "result_absent" ELSE "result_loop"
    /\ UNCHANGED <<dbVars, tempResults, addedCount, updatedCount, missingCount,
                   entryIdx, studentIdx, rosterVars, alertVars, failures, writes>>
    /\ ImportFrame

\* Lines 872-932: apiAddExamDefinition settles.  fail says whether the
\* store rejects it.  If it does not, the definition joins the working
\* copy, the student of the line is looked up, and the line is skipped or
\* issues its result write.
ResultDefinitionSettled ==
    /\ pc = "result_await_def"
    /\ \E r \in {resolveRow(lines[lineIdx], tempExamDefs, tempStudents,
                            tempResults, awaited[1].id)} :
       \E fpError \in FpErrors, fail \in BOOLEAN :
       \E written \in {resultData(IF r.resIdx > 0 THEN r.resultId ELSE nextId,
                                  r, fpError)} :
        LET aborted == continuation(fail, "on") /= "on"
            reached == ~aborted /\ r.accepted
            last    == lineIdx = Len(lines)
        IN  /\ fail => failures < MaxFailures
            /\ fpError /= 0 => reached
            /\ failures' = failures + (IF fail THEN 1 ELSE 0)
            /\ writes' = Append(writes, storeCall(awaited[1].api, awaited[1].id, ~fail))
            /\ dbDefs' = IF fail THEN dbDefs
                         ELSE apiAddExamDefinition(dbDefs, awaited[1].data)
            /\ tempExamDefs' = IF aborted THEN tempExamDefs
                               ELSE Append(tempExamDefs, awaited[1].data)
            /\ processedExamStudentIds' =
                 IF reached
                 THEN trackParticipation(processedExamStudentIds, r.examDef.id,
                                         r.student.id)
                 ELSE processedExamStudentIds
            /\ involvedClassIdsByExam' =
                 IF reached
                 THEN trackParticipation(involvedClassIdsByExam, r.examDef.id,
                                         r.student.classroomId)
                 ELSE involvedClassIdsByExam
            /\ awaited' =
                 IF reached
                 THEN <<call(IF r.resIdx > 0 THEN "apiUpdateExamResult"
                             ELSE "apiAddExamResult", written.id, written)>>
                 ELSE <<>>
            /\ nextId' = nextId + (IF reached /\ r.resIdx = 0 THEN 1 ELSE 0)
            /\ skippedCount' = skippedCount
                                 + (IF ~aborted /\ ~r.accepted THEN 1 ELSE 0)
            /\ lineIdx' = IF ~aborted /\ ~r.accepted THEN lineIdx + 1 ELSE lineIdx
            /\ pc' = continuation(fail, IF r.accepted THEN "result_await_res"
                                        ELSE IF last THEN "result_absent"
                                        ELSE "result_loop")
            /\ alertShown' = IF aborted THEN "failure" ELSE alertShown
            /\ alertCount' = alertCount + (IF aborted THEN 1 ELSE 0)
    /\ UNCHANGED <<dbStudents, dbClasses, dbResults, tempResults, addedCount,
                   updatedCount, missingCount, entryIdx, studentIdx, rosterVars>>
    /\ ImportFrame

\* Lines 923-931: the result write of a line settles.  fail says whether
\* the store rejects it; an update of a document that is not in the store
\* is rejected.  If the call returns, the working copy takes the result and
\* the line is counted.
ResultWriteSettled ==
    /\ pc = "result_await_res"
    /\ \E fail \in BOOLEAN :
        LET written  == awaited[1].data
            updating == awaited[1].api = "apiUpdateExamResult"
            rejected == updating /\ updateRejected(dbResults, written.id)
            ok       == ~fail /\ ~rejected
            aborted  == continuation(~ok, "on") /= "on"
            idx      == firstIndex({k \in 1..Len(tempResults) :
                                        tempResults[k].id = written.id})
            last     == lineIdx = Len(lines)
        IN  /\ fail => ~rejected /\ failures < MaxFailures
            /\ failures' = failures + (IF fail THEN 1 ELSE 0)
            /\ writes' = Append(writes, storeCall(awaited[1].api, written.id, ok))
            /\ dbResults' =
                 IF ~ok THEN dbResults
                 ELSE IF updating THEN apiUpdateExamResult(dbResults, written)
                 ELSE apiAddExamResult(dbResults, written)
            /\ tempResults' =
                 IF aborted THEN tempResults
                 ELSE IF updating THEN [tempResults EXCEPT ![idx] = written]
                 ELSE Append(tempResults, written)
            /\ updatedCount' = updatedCount + (IF ~aborted /\ updating THEN 1 ELSE 0)
            /\ addedCount' = addedCount + (IF ~aborted /\ ~updating THEN 1 ELSE 0)
            /\ awaited' = <<>>
            /\ lineIdx' = IF aborted THEN lineIdx ELSE lineIdx + 1
            /\ pc' = continuation(~ok, IF last THEN "result_absent"
                                       ELSE "result_loop")
            /\ alertShown' = IF aborted THEN "failure" ELSE alertShown
            /\ alertCount' = alertCount + (IF aborted THEN 1 ELSE 0)
    /\ UNCHANGED <<dbStudents, dbClasses, dbDefs, tempExamDefs, skippedCount,
                   missingCount, processedExamStudentIds, involvedClassIdsByExam,
                   entryIdx, studentIdx, rosterVars, nextId>>
    /\ ImportFrame

\* A variant in which the auto-absent step goes through the students of
\* every classroom.
absentTarget_everyClassroom(involved, processed, defs, studs, results, entry, position) ==
    LET examId   == involved[entry][1]
        defIdx   == firstIndex({k \in 1..Len(defs) : defs[k].id = examId})
        studentsInvolved == IF defIdx = 0 THEN <<>> ELSE studs
        inLoop   == position <= Len(studentsInvolved)
        student  == IF inLoop THEN studentsInvolved[position] ELSE NoStudent
    IN  [inLoop |-> inLoop, student |-> student,
         examDef |-> IF defIdx > 0 THEN defs[defIdx] ELSE NoExamDefinition,
         marks |-> inLoop /\ absentNeeded(student, mapGet(processed, examId),
                                          results, examId),
         lastOne |-> position >= Len(studentsInvolved)]

\* Lines 940-954: the student the loop of the auto-absent step is at, for
\* the exam entry it is at.  inLoop: there is such a student; marks: the
\* student gets a MISSING result.
absentTarget(involved, processed, defs, studs, results, entry, position) ==
    LET examId   == involved[entry][1]
        classIds == involved[entry][2]
        defIdx   == firstIndex({k \in 1..Len(defs) : defs[k].id = examId})
        studentsInvolved ==
            IF defIdx = 0 THEN <<>>
            ELSE SelectSeq(studs, LAMBDA st : st.classroomId \in classIds)
        inLoop   == position <= Len(studentsInvolved)
        student  == IF inLoop THEN studentsInvolved[position] ELSE NoStudent
    IN  [inLoop |-> inLoop, student |-> student,
         examDef |-> IF defIdx > 0 THEN defs[defIdx] ELSE NoExamDefinition,
         marks |-> inLoop /\ absentNeeded(student, mapGet(processed, examId),
                                          results, examId),
         lastOne |-> position >= Len(studentsInvolved)]

\* Lines 940-969 up to the store call: one student of one exam of the
\* batch.  A student who needs a MISSING result issues apiAddExamResult
\* (line 967); the loop moves on from any other.
AbsentStep ==
    /\ pc = "result_absent"
    /\ entryIdx <= Len(involvedClassIdsByExam)
    /\ \E t \in {absentTarget(involvedClassIdsByExam, processedExamStudentIds,
                              tempExamDefs, tempStudents, tempResults,
                              entryIdx, studentIdx)} :
        LET missingResult ==
                ExamResult(nextId, t.student.id, t.examDef, 0, 0, 0, 0, "MISSING")
        IN  /\ awaited' = IF t.marks
                          THEN <<call("apiAddExamResult", nextId, missingResult)>>
                          ELSE <<>>
            /\ nextId' = nextId + (IF t.marks THEN 1 ELSE 0)
            /\ entryIdx' = IF ~t.marks /\ t.lastOne THEN entryIdx + 1 ELSE entryIdx
            /\ studentIdx' = IF t.marks THEN studentIdx
                             ELSE IF t.lastOne THEN 1 ELSE studentIdx + 1
            /\ pc' = IF t.marks THEN "result_await_absent" ELSE "result_absent"
    /\ UNCHANGED <<dbVars, tempExamDefs, tempResults, addedCount, updatedCount,
                   skippedCount, missingCount, processedExamStudentIds,
                   involvedClassIdsByExam, lineIdx, rosterVars, alertVars,
                   failures, writes>>
    /\ ImportFrame

\* Lines 967-969: the write of a MISSING result settles.  fail says whether
\* the store rejects it.
AbsentWriteSettled ==
    /\ pc = "result_await_absent"
    /\ \E t \in {absentTarget(involvedClassIdsByExam, processedExamStudentIds,
                              tempExamDefs, tempStudents, tempResults,
                              entryIdx, studentIdx)} :
       \E fail \in BOOLEAN :
        LET aborted == continuation(fail, "on") /= "on"
        IN  /\ fail => failures < MaxFailures
            /\ failures' = failures + (IF fail THEN 1 ELSE 0)
            /\ writes' = Append(writes, storeCall(awaited[1].api, awaited[1].id, ~fail))
            /\ dbResults' = IF fail THEN dbResults
                            ELSE apiAddExamResult(dbResults, awaited[1].data)
            /\ tempResults' = IF aborted THEN tempResults
                              ELSE Append(tempResults, awaited[1].data)
            /\ missingCount' = missingCount + (IF aborted THEN 0 ELSE 1)
            /\ awaited' = <<>>
            /\ entryIdx' = IF ~aborted /\ t.lastOne THEN entryIdx + 1 ELSE entryIdx
            /\ studentIdx' = IF aborted THEN studentIdx
                             ELSE IF t.lastOne THEN 1 ELSE studentIdx + 1
            /\ pc' = continuation(fail, "result_absent")
            /\ alertShown' = IF aborted THEN "failure" ELSE alertShown
            /\ alertCount' = alertCount + (IF aborted THEN 1 ELSE 0)
    /\ UNCHANGED <<dbStudents, dbClasses, dbDefs, tempExamDefs, addedCount,
                   updatedCount, skippedCount, processedExamStudentIds,
                   involvedClassIdsByExam, lineIdx, rosterVars, nextId>>
    /\ ImportFrame

\* Lines 976-980: the state is replaced by the working copies and the
\* summary is shown.
ResultFinish ==
    /\ pc = "result_absent"
    /\ entryIdx > Len(involvedClassIdsByExam)
    /\ examDefinitions' = tempExamDefs
    /\ exams' = tempResults
    /\ isBatchModalOpen' = FALSE
    /\ alertShown' = "summary"
    /\ alertCount' = alertCount + 1
    /\ pc' = "alert"
    /\ UNCHANGED <<students, classes, isLoading, errorMsg, batchModalMode,
                   dbVars, lines, tempStudents, resultVars, rosterVars, awaited,
                   viewVars, nextId, failures, scope, writes, obsVars, netVars>>

(***************************************************************************)
(* Roster import: handleBatchStudentImport (App.tsx 663-768)               *)
(***************************************************************************)
\* Lines 671-674: the fields of a line, by tabs, else by blanks.
rosterParts(line) ==
    LET parts == tabParts(line)
    IN  IF Len(parts) < 2 THEN splitWs(trim(line)) ELSE parts

\* Lines 676-685: the payload of a line, <<>> when it yields none.
rosterRow(line) ==
    LET parts     == rosterParts(line)
        n         == Len(parts)
        className == parts[n]
        surname   == IF n - 1 > 1 THEN parts[n - 1] ELSE <<>>
        name      == join(SubSeq(parts, 1, IF n - 1 > 1 THEN n - 2 ELSE n - 1), <<" ">>)
    IN  IF n >= 2 /\ name /= <<>> /\ className /= <<>>
        THEN <<[name |-> name, surname |-> surname, className |-> className]>>
        ELSE <<>>

\* Lines 670-686: the payloads of the lines, in order.
RECURSIVE rosterPayload(_)
rosterPayload(ls) ==
    IF ls = <<>> THEN <<>> ELSE rosterRow(Head(ls)) \o rosterPayload(Tail(ls))

\* A Set<string> filled by add(), in insertion order.
RECURSIVE distinctInOrder(_, _)
distinctInOrder(items, seen) ==
    IF items = <<>> THEN seen
    ELSE distinctInOrder(Tail(items),
                         IF Head(items) \in Range(seen) THEN seen
                         ELSE Append(seen, Head(items)))

\* A variant that compares the names as they are written.
findClass_exact(classList, cName) ==
    firstIndex({k \in 1..Len(classList) : classList[k].name = cName})

\* Lines 700 and 720: the classroom of that name, case-insensitively.
findClass(classList, cName) ==
    firstIndex({k \in 1..Len(classList) :
                    toLowerCase(classList[k].name) = toLowerCase(cName)})

\* A variant that compares the names as they are written.
findStudentByName_exact(studs, name, surname) ==
    firstIndex({k \in 1..Len(studs) :
        studs[k].name = name /\ studs[k].surname = surname})

\* Lines 724-727: the student of that name and surname.
findStudentByName(studs, name, surname) ==
    firstIndex({k \in 1..Len(studs) :
        /\ toLocaleLowerCaseTr(studs[k].name) = toLocaleLowerCaseTr(name)
        /\ toLocaleLowerCaseTr(studs[k].surname) = toLocaleLowerCaseTr(surname)})

RosterLines ==
    { \* a student of 8A, named with class 8B and with class 8A
      spaceLine(<< <<"A","l">>, <<"V","e">>, <<"8","B">> >>),
      tabLine(<< <<"a","l">>, <<"v","e">>, <<"8","a">> >>),
      \* a new student in a new class, twice with a different case
      spaceLine(<< <<"N","e">>, <<"W","u">>, <<"8","C">> >>),
      tabLine(<< <<"n","e"," ","w","u">>, <<"8","c">> >>),
      \* a line of one word, a blank line
      <<"8","A">>,
      <<" ">> }

RosterTexts == TextsOf(RosterLines)

\* Lines 663-697 and 716: the handler starts on `t`; with no payload it
\* shows the no-valid-data alert and returns.  The classes and the
\* students the handler copies (lines 695 and 716) are those of the render
\* that called it.
BeginStudentImport(t) ==
    /\ isLoading' = TRUE
    /\ \E ls \in {nonBlankLines(t)} :
       \E payload \in {rosterPayload(ls)} :
        /\ lines' = ls
        /\ newStudentsPayload' = payload
        /\ classNamesFound' =
             distinctInOrder([i \in 1..Len(payload) |-> payload[i].className], <<>>)
        /\ pc' = IF payload = <<>> THEN "alert" ELSE "roster_classes"
        /\ alertShown' = IF payload = <<>> THEN "novalid" ELSE "none"
        /\ alertCount' = IF payload = <<>> THEN 1 ELSE 0
        /\ tempClasses' = IF payload = <<>> THEN <<>> ELSE classes
        /\ tempStudents' = IF payload = <<>> THEN <<>> ELSE students
    /\ createdClasses' = <<>>
    /\ classIdx' = 1 /\ payloadIdx' = 1
    /\ addedCount' = 0 /\ updatedCount' = 0 /\ skippedCount' = 0
    /\ writes' = <<>>
    /\ text' = t /\ handlerKind' = "student"
    /\ startExams' = exams /\ startDefs' = examDefinitions
    /\ overlapped' = (overlapped \/ pending /= <<>>)
    /\ UNCHANGED <<listVars, isBatchModalOpen, errorMsg, batchModalMode,
                   dbVars, lineIdx, tempExamDefs, tempResults, missingCount,
                   processedExamStudentIds, involvedClassIdsByExam, entryIdx,
                   studentIdx, awaited, viewVars, nextId, failures, scope,
                   lastAlert, nOps, netVars>>

\* The user pastes a text into the roster import box and submits it.  The
\* box is the modal, open in the mode of the handler (lines 1876-1880).
StartStudentImport ==
    /\ pc = "idle"
    /\ isBatchModalOpen /\ batchModalMode = "student"
    /\ ImportsLeft
    /\ \E t \in IF scope = "texts" THEN RosterTexts ELSE LiveRosterTexts :
         BeginStudentImport(t)
    /\ nImports' = nImports + 1
    /\ repeatOf' = "none"
    /\ prevAdded' = 0 /\ prevUpdated' = 0 /\ prevDbResults' = {}
    /\ UNCHANGED nRepeats

\* The user submits the text of the last roster import again, with nothing
\* done in between but the opening of the modal.
RepeatStudentImport ==
    /\ pc = "idle"
    /\ isBatchModalOpen /\ batchModalMode = "student"
    /\ handlerKind = "student"
    /\ RepeatsLeft
    /\ BeginStudentImport(text)
    /\ nRepeats' = nRepeats + 1
    /\ repeatOf' = lastAlert
    /\ prevDbResults' = dbResults
    /\ UNCHANGED <<prevAdded, prevUpdated, nImports>>

\* What the roster import leaves alone at each of its steps.
RosterFrame ==
    UNCHANGED <<students, exams, examDefinitions, screenVars, lines, resultVars,
                newStudentsPayload, classNamesFound, viewVars, scope, obsVars,
                netVars>>

\* Lines 699-714 up to the store call: one class name of the text.  A name
\* of no classroom issues apiAddClass (line 704); after the last name the
\* classes state is replaced if a classroom was created.
RosterClassStep ==
    /\ pc = "roster_classes"
    /\ \E found \in {findClass(tempClasses, classNamesFound[classIdx])} :
        LET cls     == Classroom(nextId, classNamesFound[classIdx])
            creates == found = 0
            last    == classIdx = Len(classNamesFound)
        IN  /\ awaited' = IF creates THEN <<call("apiAddClass", cls.id, cls)>>
                          ELSE <<>>
            /\ nextId' = nextId + (IF creates THEN 1 ELSE 0)
            /\ classIdx' = IF creates THEN classIdx ELSE classIdx + 1
            /\ classes' = IF ~creates /\ last /\ Len(createdClasses) > 0
                          THEN tempClasses ELSE classes
            /\ pc' = IF creates THEN "roster_await_class"
                     ELSE IF last THEN "roster_students" ELSE "roster_classes"
    /\ UNCHANGED <<dbVars, tempStudents, tempClasses, createdClasses, payloadIdx,
                   alertVars, failures, writes>>
    /\ RosterFrame

\* Lines 704-713: apiAddClass settles.  fail says whether the store
\* rejects it.
RosterClassSettled ==
    /\ pc = "roster_await_class"
    /\ \E fail \in BOOLEAN :
        LET cls     == awaited[1].data
            aborted == continuation(fail, "on") /= "on"
            after   == Append(tempClasses, cls)
            last    == classIdx = Len(classNamesFound)
        IN  /\ fail => failures < MaxFailures
            /\ failures' = failures + (IF fail THEN 1 ELSE 0)
            /\ writes' = Append(writes, storeCall(awaited[1].api, cls.id, ~fail))
            /\ dbClasses' = IF fail THEN dbClasses ELSE apiAddClass(dbClasses, cls)
            /\ tempClasses' = IF aborted THEN tempClasses ELSE after
            /\ createdClasses' = IF aborted THEN createdClasses
                                 ELSE Append(createdClasses, cls)
            /\ awaited' = <<>>
            /\ classIdx' = IF aborted THEN classIdx ELSE classIdx + 1
            /\ classes' = IF ~aborted /\ last THEN after ELSE classes
            /\ pc' = continuation(fail, IF last THEN "roster_students"
                                        ELSE "roster_classes")
            /\ alertShown' = IF aborted THEN "failure" ELSE alertShown
            /\ alertCount' = alertCount + (IF aborted THEN 1 ELSE 0)
    /\ UNCHANGED <<dbStudents, dbResults, dbDefs, tempStudents, payloadIdx, nextId>>
    /\ RosterFrame

\* Lines 719-756 up to the store call: what a payload resolves to.
resolveStudentRow(s, classList, studs, freshId) ==
    LET clsIdx == findClass(classList, s.className)
        stIdx  == IF clsIdx > 0 THEN findStudentByName(studs, s.name, s.surname)
                  ELSE 0
        clsId  == IF clsIdx > 0 THEN classList[clsIdx].id ELSE 0
        moves  == stIdx > 0 /\ studs[stIdx].classroomId /= clsId
    IN  [hasClass |-> clsIdx > 0, stIdx |-> stIdx,
         moves |-> moves,
         same |-> stIdx > 0 /\ ~moves,
         adds |-> clsIdx > 0 /\ stIdx = 0,
         student |->
            IF stIdx > 0 THEN [studs[stIdx] EXCEPT !.classroomId = clsId]
            ELSE Student(freshId, s.name, s.surname, clsId, DefaultTargetCorrect)]

\* Lines 719-756 up to the store call: one payload.  A student in another
\* class issues apiUpdateStudent (line 739), a new student apiAddStudent
\* (line 752); a student already in the class is counted as skipped.
RosterStudentStep ==
    /\ pc = "roster_students"
    /\ payloadIdx <= Len(newStudentsPayload)
    /\ \E r \in {resolveStudentRow(newStudentsPayload[payloadIdx], tempClasses,
                                   tempStudents, nextId)} :
        LET calls == r.moves \/ r.adds
        IN  /\ awaited' =
                 IF calls
                 THEN <<call(IF r.moves THEN "apiUpdateStudent" ELSE "apiAddStudent",
                             r.student.id, r.student)>>
                 ELSE <<>>
            /\ skippedCount' = skippedCount + (IF r.same THEN 1 ELSE 0)
            /\ nextId' = nextId + (IF r.adds THEN 1 ELSE 0)
            /\ payloadIdx' = IF calls THEN payloadIdx ELSE payloadIdx + 1
            /\ pc' = IF calls THEN "roster_await_student" ELSE "roster_students"
    /\ UNCHANGED <<classes, dbVars, tempStudents, tempClasses, createdClasses,
                   classIdx, addedCount, updatedCount, alertVars, failures, writes>>
    /\ UNCHANGED <<students, exams, examDefinitions, screenVars, lines,
                   tempExamDefs, tempResults, missingCount,
                   processedExamStudentIds, involvedClassIdsByExam, lineIdx,
                   entryIdx, studentIdx, newStudentsPayload, classNamesFound,
                   viewVars, scope, obsVars, netVars>>

\* Lines 739-755: the student write settles.  fail says whether the store
\* rejects it; an update of a document that is not in the store is
\* rejected.
RosterStudentSettled ==
    /\ pc = "roster_await_student"
    /\ \E fail \in BOOLEAN :
        LET student  == awaited[1].data
            moves    == awaited[1].api = "apiUpdateStudent"
            rejected == moves /\ updateRejected(dbStudents, student.id)
            ok       == ~fail /\ ~rejected
            aborted  == continuation(~ok, "on") /= "on"
            stIdx    == findStudentByName(tempStudents,
                                          newStudentsPayload[payloadIdx].name,
                                          newStudentsPayload[payloadIdx].surname)
        IN  /\ fail => ~rejected /\ failures < MaxFailures
            /\ failures' = failures + (IF fail THEN 1 ELSE 0)
            /\ writes' = Append(writes, storeCall(awaited[1].api, student.id, ok))
            /\ dbStudents' =
                 IF ~ok THEN dbStudents
                 ELSE IF moves THEN apiUpdateStudent(dbStudents, student)
                 ELSE apiAddStudent(dbStudents, student)
            /\ tempStudents' =
                 IF aborted THEN tempStudents
                 ELSE IF moves THEN [tempStudents EXCEPT ![stIdx] = student]
                 ELSE Append(tempStudents, student)
            /\ updatedCount' = updatedCount + (IF ~aborted /\ moves THEN 1 ELSE 0)
            /\ addedCount' = addedCount + (IF ~aborted /\ ~moves THEN 1 ELSE 0)
            /\ awaited' = <<>>
            /\ payloadIdx' = IF aborted THEN payloadIdx ELSE payloadIdx + 1
            /\ pc' = continuation(~ok, "roster_students")
            /\ alertShown' = IF aborted THEN "failure" ELSE alertShown
            /\ alertCount' = alertCount + (IF aborted THEN 1 ELSE 0)
    /\ UNCHANGED <<classes, dbClasses, dbResults, dbDefs, tempClasses,
                   createdClasses, classIdx, skippedCount, nextId>>
    /\ UNCHANGED <<students, exams, examDefinitions, screenVars, lines,
                   tempExamDefs, tempResults, missingCount,
                   processedExamStudentIds, involvedClassIdsByExam, lineIdx,
                   entryIdx, studentIdx, newStudentsPayload, classNamesFound,
                   viewVars, scope, obsVars, netVars>>

\* Lines 758-760: the students state is replaced by the working copy and
\* the summary is shown.
RosterFinish ==
    /\ pc = "roster_students"
    /\ payloadIdx > Len(newStudentsPayload)
    /\ students' = tempStudents
    /\ isBatchModalOpen' = FALSE
    /\ alertShown' = "summary"
    /\ alertCount' = alertCount + 1
    /\ pc' = "alert"
    /\ UNCHANGED <<classes, exams, examDefinitions, isLoading, errorMsg,
                   batchModalMode, dbVars, lines, tempStudents, resultVars,
                   rosterVars, awaited, viewVars, nextId, failures, scope,
                   writes, obsVars, netVars>>

(***************************************************************************)
(* Derived data: studentsWithStats (App.tsx 400-441), stats (461-486)      *)
(***************************************************************************)
\* Array.prototype.reduce((sum, e) => sum + e[field], 0)
RECURSIVE sumOf(_, _)
sumOf(rows, field) ==
    IF rows = <<>> THEN 0 ELSE Head(rows)[field] + sumOf(Tail(rows), field)

\* The quotient num / den of two positive integers brought between 1 and 2
\* by doubling one of them: the double nearest to a quotient has the
\* significand of the double nearest to the other.
RECURSIVE scaledQuotient(_, _)
scaledQuotient(num, den) ==
    IF num < den THEN scaledQuotient(2 * num, den)
    ELSE IF num >= 2 * den THEN scaledQuotient(num, 2 * den)
    ELSE <<num, den>>

\* The long division that yields the 52 bits of the significand of a
\* double after its leading bit.  rem / den is what is left of the quotient
\* after `bits` of them, lastBit the last one.  The division of IEEE 754
\* rounds to the nearest double, a tie to the even significand: 1 when the
\* double is above the quotient, -1 when it is below, 0 when it is the
\* quotient.
RECURSIVE roundingSide(_, _, _, _)
roundingSide(rem, den, bits, lastBit) ==
    IF bits = 52
    THEN IF rem = 0 THEN 0
         ELSE IF 2 * rem > den THEN 1
         ELSE IF 2 * rem < den THEN -1
         ELSE IF lastBit = 1 THEN 1 ELSE -1
    ELSE IF 2 * rem >= den THEN roundingSide(2 * rem - den, den, bits + 1, 1)
         ELSE roundingSide(2 * rem, den, bits + 1, 0)

\* Where the double that the division num / den returns lies with regard
\* to the quotient, for num >= 0 and den > 0.
doubleSide(num, den) ==
    IF num = 0 THEN 0
    ELSE LET q == scaledQuotient(num, den)
         IN  roundingSide(q[1] - q[2], q[2], 0, 1)

\* (total / count).toFixed(1) followed by parseFloat, in tenths, for
\* integers total and count > 0.  toFixed takes the multiple of 0.1 that is
\* nearest to the double the division returned, the one of larger magnitude
\* when both are as near: a quotient halfway between two multiples goes by
\* the side on which its double lies (3 / 20 gives 0.1 and 1 / 20 gives
\* 0.1), and away from zero when it is a double itself (1 / 4 gives 0.3).
toFixed1(total, count) ==
    LET magnitude == IF total >= 0 THEN total ELSE 0 - total
        tenths    == (10 * magnitude) \div count
        rest      == 10 * magnitude - tenths * count
        rounded   == IF 2 * rest > count THEN tenths + 1
                     ELSE IF 2 * rest < count THEN tenths
                     ELSE IF doubleSide(magnitude, count) >= 0 THEN tenths + 1
                     ELSE tenths
    IN  IF total >= 0 THEN rounded ELSE 0 - rounded

\* A variant that counts the rows of absent students too.
attendedRows_all(rows) == rows

\* filter(e => e.status !== 'MISSING')
attendedRows(rows) == SelectSeq(rows, LAMBDA e : e.status /= "MISSING")

\* Lines 406-411: the rows a student's averages are computed from.
\* filterExamId is the id of an exam definition, or 0 for 'all'.
calculationExams(studentExams, filterExamId) ==
    IF filterExamId /= 0
    THEN SelectSeq(attendedRows(studentExams), LAMBDA e : e.examId = filterExamId)
    ELSE attendedRows(studentExams)

\* Array.prototype.sort by date, stable: latest first when descending.
RECURSIVE insertByDate(_, _, _)
insertByDate(sorted, e, descending) ==
    IF sorted = <<>> THEN <<e>>
    ELSE IF (IF descending THEN Head(sorted).date >= e.date
             ELSE Head(sorted).date <= e.date)
         THEN <<Head(sorted)>> \o insertByDate(Tail(sorted), e, descending)
         ELSE <<e>> \o sorted

RECURSIVE sortByDate(_, _)
sortByDate(arr, descending) ==
    IF arr = <<>> THEN <<>>
    ELSE insertByDate(sortByDate(SubSeq(arr, 1, Len(arr) - 1), descending),
                      arr[Len(arr)], descending)

\* Lines 401-439: the statistics of one student.  The nets are in
\* hundredths, the averages of correct and incorrect in tenths; fpError is
\* the rounding error of the sum and the quotient of the nets, in units of
\* 10^-6.  lastResult and previousResult are given by the id of the result
\* (0: none).
studentStats(student, results, filterExamId, fpError) ==
    LET studentExams == SelectSeq(results, LAMBDA e : e.studentId = student.id)
        calc         == calculationExams(studentExams, filterExamId)
        examCount    == Len(calc)
        sortedExams  == sortByDate(studentExams, TRUE)
        validExams   == attendedRows(sortedExams)
    IN  [id |-> student.id,
         examCount |-> examCount,
         averageNet |->
            IF examCount > 0
            THEN toFixed2((sumOf(calc, "net") * 10000) \div examCount + fpError)
            ELSE 0,
         averageCorrect |->
            IF examCount > 0
            THEN toFixed1(sumOf(calc, "correct"), examCount)
            ELSE 0,
         averageIncorrect |->
            IF examCount > 0
            THEN toFixed1(sumOf(calc, "incorrect"), examCount)
            ELSE 0,
         lastNet |-> IF sortedExams /= <<>> THEN sortedExams[1].net ELSE 0,
         lastResult |-> IF sortedExams /= <<>> THEN sortedExams[1].id ELSE 0,
         previousResult |-> IF Len(validExams) > 1 THEN validExams[2].id ELSE 0]

\* Each student's average is rounded on its own: fpErrors[i] is the rounding
\* error of the division for studs[i].
studentsWithStats(studs, results, filterExamId, fpErrors) ==
    [i \in 1..Len(studs) |->
        studentStats(studs[i], results, filterExamId, fpErrors[i])]

\* Lines 471-482: the average net of one exam definition, in hundredths.
examStat(def, effectiveExams, fpError) ==
    LET results == SelectSeq(effectiveExams,
                             LAMBDA e : e.examId = def.id \/ e.examName = def.name)
    IN  [name |-> def.name,
         avgNet |-> IF Len(results) > 0
                    THEN toFixed2((sumOf(results, "net") * 10000) \div Len(results)
                                  + fpError)
                    ELSE 0,
         date |-> def.date]

\* Lines 461-486.  globalAvgNet, the text of a number with two decimals, is
\* given in hundredths.  Each average is rounded on its own: fpError is the
\* rounding error of the global division, examFpErrors[i] that of defs[i].
stats(studs, results, defs, fpError, examFpErrors) ==
    LET effectiveExams == attendedRows(results)
        totalExams     == Len(effectiveExams)
    IN  [totalStudents |-> Len(studs),
         totalExams |-> totalExams,
         totalExamDefinitions |-> Len(defs),
         globalAvgNet |->
            IF totalExams > 0
            THEN toFixed2((sumOf(effectiveExams, "net") * 10000) \div totalExams
                          + fpError)
            ELSE 0,
         examStats |->
            sortByDate([i \in 1..Len(defs) |->
                            examStat(defs[i], effectiveExams, examFpErrors[i])],
                       FALSE)]


(***************************************************************************)
(* The handlers of the views.  A dialog is opened by a click in a view;    *)
(* its callback (onSave, onSubmit, onConfirm) is called without being      *)
(* awaited and the dialog closes at once (lines 101-103, 150, 1978-1984,   *)
(* 2140-2146), so that the callback goes on, after its store call has      *)
(* settled, while the user does something else.                            *)
(***************************************************************************)
Dialog(kind, handler, id, examId, captured) ==
    [kind |-> kind, handler |-> handler, id |-> id, examId |-> examId,
     captured |-> captured]

\* A handler of a view suspended on a store call: the function, the id of
\* its document, the value passed (none for a deletion), the ids of the
\* documents it deletes afterwards.
viewCall(handler, api, id, data, rest) ==
    [handler |-> handler, api |-> api, id |-> id, data |-> data, rest |-> rest]

\* What no handler of a view touches.
QuietFrame ==
    UNCHANGED <<screenVars, lines, tempStudents, resultVars, rosterVars,
                awaited, scope, writes, runVars, netVars>>

\* A click in a view opens a dialog.
Opens(d) ==
    /\ ViewShown /\ OpsLeft
    /\ dialog' = d
    /\ overlapped' = (overlapped \/ pending /= <<>>)
    /\ UNCHANGED <<listVars, dbVars, pc, pending, viewCalls, alertVars, nextId,
                   failures, handlerKind, nOps>>
    /\ QuietFrame

\* The callback of the dialog runs up to its store call; the dialog closes.
\* fresh is the number of ids the callback takes.
Issues(handler, api, id, data, rest, fresh) ==
    /\ pc = "idle"
    /\ Len(pending) < MaxPending
    /\ pending' = Append(pending, viewCall(handler, api, id, data, rest))
    /\ dialog' = NoDialog
    /\ nextId' = nextId + fresh
    /\ nOps' = nOps + 1
    /\ handlerKind' = handler
    /\ alertCount' = 0
    /\ overlapped' = (overlapped \/ pending /= <<>>)
    /\ UNCHANGED <<dbVars, pc, viewCalls, alertShown, failures>>
    /\ QuietFrame

\* A handler refuses with an alert and changes nothing.
Notifies(handler, notice) ==
    /\ pc = "idle"
    /\ pc' = "notice"
    /\ alertShown' = notice
    /\ alertCount' = 1
    /\ handlerKind' = handler
    /\ UNCHANGED <<listVars, dbVars, dialog, pending, viewCalls, nextId,
                   failures, overlapped, nOps>>
    /\ QuietFrame

\* A continuation of a handler of a view can run: no alert blocks the page
\* and the import handler is not running or is suspended on a store call.
SettlePositions ==
    {"idle", "result_await_def", "result_await_res", "result_await_absent",
     "roster_await_class", "roster_await_student"}

\* The store call of the i-th suspended handler settles.  fail says whether
\* the store rejects it, rejected whether it is an update of a document
\* that is not in the store.  A rejected call ends the handler: nothing
\* catches the rejection and nothing is shown.
Settles(i, fail, rejected) ==
    /\ pc \in SettlePositions
    /\ fail => ~rejected /\ failures < MaxFailures
    /\ failures' = failures + (IF fail THEN 1 ELSE 0)
    /\ viewCalls' = Append(viewCalls,
                           storeCall(pending[i].api, pending[i].id,
                                     ~fail /\ ~rejected))
    /\ UNCHANGED <<pc, dialog, alertVars, nextId, handlerKind, overlapped,
                   nOps>>
    /\ QuietFrame

dropAt(seq, i) == SubSeq(seq, 1, i - 1) \o SubSeq(seq, i + 1, Len(seq))

\* Array.prototype.map(e => e.id === data.id ? data : e)
replaceById(arr, data) ==
    [i \in 1..Len(arr) |-> IF arr[i].id = data.id THEN data ELSE arr[i]]

\* Array.prototype.filter(e => e.id !== id)
removeById(arr, id) == SelectSeq(arr, LAMBDA e : e.id /= id)

\* The user closes a dialog without submitting it (its onClose).
CloseDialog ==
    /\ pc = "idle"
    /\ dialog.kind /= "none"
    /\ dialog' = NoDialog
    /\ UNCHANGED <<listVars, dbVars, pc, pending, viewCalls, alertVars, nextId,
                   failures, handlerKind, overlapped, nOps>>
    /\ QuietFrame

\* The user closes the alert of a handler of a view.
DismissNotice ==
    /\ pc = "notice"
    /\ pc' = "idle"
    /\ alertShown' = "none"
    /\ UNCHANGED <<listVars, dbVars, dialog, pending, viewCalls, alertCount,
                   nextId, failures, handlerKind, overlapped, nOps>>
    /\ QuietFrame

(***************************************************************************)
(* Manual result entry: handleOpenExamModal (App.tsx 583-587),             *)
(* ExamModal.handleSubmit (1945-1985) and handleSaveExam (589-598)         *)
(***************************************************************************)
\* Lines 1302-1308: the result the student detail view shows for an exam
\* definition, <<>> when there is none.
detailResult(results, studentId, examId) ==
    LET history == sortByDate(SelectSeq(results, LAMBDA e : e.studentId = studentId),
                              TRUE)
        found   == SelectSeq(history, LAMBDA h : h.examId = examId)
    IN  IF found = <<>> THEN <<>> ELSE <<found[1]>>

\* Line 1855: the exams the student already has a result for; none when a
\* result is edited.
existingExamIds(results, studentId, editing) ==
    IF editing THEN {}
    ELSE {results[i].examId : i \in {j \in 1..Len(results) : results[j].studentId = studentId}}

\* Lines 1949-1961: the alert the submit is refused with, "none" when it is
\* accepted.
submitAlert(correct, incorrect, editing, taken, selectedExamId) ==
    IF QuestionCount - (correct + incorrect) < 0 THEN "sumOver"
    ELSE IF ~editing /\ selectedExamId \in taken THEN "alreadyEntered"
    ELSE "none"

\* Lines 1956 and 1963-1964: the definition the result is written for; when
\* the list holds none of the selected id, the name and date of the result
\* that is edited, else 'Bilinmeyen Sinav' and today.
selectedExam(defs, selectedExamId, initialData) ==
    LET found == SelectSeq(defs, LAMBDA ed : ed.id = selectedExamId)
    IN  IF found /= <<>> THEN found[1]
        ELSE IF initialData /= <<>>
        THEN ExamDefinition(selectedExamId, initialData[1].examName,
                            initialData[1].date)
        ELSE ExamDefinition(selectedExamId, UnknownExamName, Today)

\* A variant that keeps the scores of the form when the absent box is
\* checked.
modalResultData_keepingScores(id, studentId, examDef, correct, incorrect, isMissing, fpError) ==
    ExamResult(id, studentId, examDef, correct, incorrect,
               QuestionCount - (correct + incorrect),
               IF isMissing THEN 0 ELSE calculateNet(correct, incorrect, fpError),
               IF isMissing THEN "MISSING" ELSE "ATTENDED")

\* Lines 1966-1976, with previewNet of lines 1937-1943.
modalResultData(id, studentId, examDef, correct, incorrect, isMissing, fpError) ==
    ExamResult(id, studentId, examDef,
               IF isMissing THEN 0 ELSE correct,
               IF isMissing THEN 0 ELSE incorrect,
               IF isMissing THEN 0 ELSE QuestionCount - (correct + incorrect),
               IF isMissing THEN 0 ELSE calculateNet(correct, incorrect, fpError),
               IF isMissing THEN "MISSING" ELSE "ATTENDED")

\* Lines 1448 and 1452: the student detail view opens the modal on one exam
\* definition of one student: on the student's result for it (edit), else
\* on the definition (add).
handleOpenExamModal ==
    \E si \in 1..Len(students), di \in 1..Len(examDefinitions) :
        Opens(Dialog("exam", "saveExam", students[si].id, examDefinitions[di].id,
                     detailResult(exams, students[si].id, examDefinitions[di].id)))

\* The user fills the form and submits it.  A refused submit shows an alert
\* and leaves the modal open; an accepted one calls handleSaveExam, which
\* issues apiUpdateExamResult (line 591) or, with a fresh id,
\* apiAddExamResult (line 595).
SaveExam ==
    /\ dialog.kind = "exam"
    /\ \E score \in ManualScores, isMissing \in BOOLEAN, fpError \in FpErrors :
        LET editing == dialog.captured /= <<>>
            taken   == existingExamIds(exams, dialog.id, editing)
            notice  == submitAlert(score[1], score[2], editing, taken, dialog.examId)
            examDef == selectedExam(examDefinitions, dialog.examId, dialog.captured)
            id      == IF editing THEN dialog.captured[1].id ELSE nextId
            data    == modalResultData(id, dialog.id, examDef, score[1], score[2],
                                       isMissing, fpError)
        IN  /\ editing \/ Len(examDefinitions) > 0
            /\ fpError /= 0 => notice = "none" /\ ~isMissing
            /\ IF notice /= "none"
               THEN Notifies("saveExam", notice)
               ELSE /\ Issues("saveExam",
                              IF editing THEN "apiUpdateExamResult"
                              ELSE "apiAddExamResult",
                              id, <<data>>, <<>>, IF editing THEN 0 ELSE 1)
                    /\ UNCHANGED listVars

\* Lines 591-596: the store call of handleSaveExam settles and the result
\* replaces its earlier version in the list, or joins the list.
SaveExamSettled ==
    \E i \in 1..Len(pending), fail \in BOOLEAN :
        LET c        == pending[i]
            updating == c.api = "apiUpdateExamResult"
            rejected == updating /\ updateRejected(dbResults, c.id)
            ok       == ~fail /\ ~rejected
        IN  /\ c.handler = "saveExam"
            /\ Settles(i, fail, rejected)
            /\ pending' = dropAt(pending, i)
            /\ dbResults' = IF ~ok THEN dbResults
                            ELSE IF updating THEN apiUpdateExamResult(dbResults, c.data[1])
                            ELSE apiAddExamResult(dbResults, c.data[1])
            /\ exams' = IF ~ok THEN exams
                        ELSE IF updating THEN replaceById(exams, c.data[1])
                        ELSE Append(exams, c.data[1])
            /\ UNCHANGED <<students, classes, examDefinitions, dbStudents,
                           dbClasses, dbDefs>>

(***************************************************************************)
(* The student form: StudentFormModal (App.tsx 2109-2216) and              *)
(* handleSaveStudent (543-558)                                             *)
(***************************************************************************)
\* Lines 1325 and 1760: the form opens on a student of the detail view, or
\* empty.
OpenStudentModal ==
    /\ \E captured \in {<<>>} \cup {<<students[si]>> : si \in 1..Len(students)} :
        Opens(Dialog("student", "saveStudent",
                     IF captured = <<>> THEN 0 ELSE captured[1].id, 0, captured))

\* Lines 545-548: targetCorrect of the data the form passes on, 6 when the
\* field is absent.
cleanData(studentData) ==
    [studentData EXCEPT !.targetCorrect =
        IF @ = Undefined THEN DefaultTargetCorrect ELSE @]

\* The user fills the form and submits it (lines 2131-2146);
\* handleSaveStudent issues apiUpdateStudent (line 551) or, with a fresh
\* id, apiAddStudent (line 555).
SaveStudent ==
    /\ dialog.kind = "student"
    /\ \E names \in StudentFormNames
                      \cup {<<dialog.captured[k].name, dialog.captured[k].surname>> :
                              k \in 1..Len(dialog.captured)},
          ci \in 1..Len(classes) :
        LET editing == dialog.captured /= <<>>
            data    == cleanData(
                         Student(IF editing THEN dialog.id ELSE nextId,
                                 names[1], names[2], classes[ci].id,
                                 IF editing THEN dialog.captured[1].targetCorrect
                                 ELSE Undefined))
        IN  /\ Issues("saveStudent",
                      IF editing THEN "apiUpdateStudent" ELSE "apiAddStudent",
                      data.id, <<data>>, <<>>, IF editing THEN 0 ELSE 1)
            /\ UNCHANGED listVars

\* Lines 551-556: the store call of handleSaveStudent settles and the
\* student replaces the earlier version in the list, or joins the list.
SaveStudentSettled ==
    \E i \in 1..Len(pending), fail \in BOOLEAN :
        LET c        == pending[i]
            updating == c.api = "apiUpdateStudent"
            rejected == updating /\ updateRejected(dbStudents, c.id)
            ok       == ~fail /\ ~rejected
        IN  /\ c.handler = "saveStudent"
            /\ Settles(i, fail, rejected)
            /\ pending' = dropAt(pending, i)
            /\ dbStudents' = IF ~ok THEN dbStudents
                             ELSE IF updating THEN apiUpdateStudent(dbStudents, c.data[1])
                             ELSE apiAddStudent(dbStudents, c.data[1])
            /\ students' = IF ~ok THEN students
                           ELSE IF updating THEN replaceById(students, c.data[1])
                           ELSE Append(students, c.data[1])
            /\ UNCHANGED <<classes, exams, examDefinitions, dbClasses, dbResults,
                           dbDefs>>

(***************************************************************************)
(* Deletions: handleDeleteStudent (App.tsx 560-581), handleDeleteExamResult *)
(* (600-610), handleDeleteExamDefinition (646-660)                         *)
(***************************************************************************)
\* Line 1328: the confirm dialog opens on a student of the detail view.
\* Its callback holds the exams of the render that opened it (line 575).
handleDeleteStudent ==
    \E si \in 1..Len(students) :
        Opens(Dialog("confirm", "deleteStudent", students[si].id, 0,
                     SelectSeq(exams, LAMBDA e : e.studentId = students[si].id)))

\* Lines 565-572, the onConfirm up to its first store call: the lists lose
\* the student and the student's results at once, then apiDeleteStudent is
\* issued.
ConfirmDeleteStudent ==
    /\ dialog.kind = "confirm" /\ dialog.handler = "deleteStudent"
    /\ Issues("deleteStudent", "apiDeleteStudent", dialog.id, <<>>,
              [k \in 1..Len(dialog.captured) |-> dialog.captured[k].id], 0)
    /\ students' = removeById(students, dialog.id)
    /\ exams' = SelectSeq(exams, LAMBDA e : e.studentId /= dialog.id)
    /\ UNCHANGED <<classes, examDefinitions>>

\* Lines 572-578: apiDeleteStudent, or the apiDeleteExamResult of one of
\* the captured results, settles; the callback issues the call for the
\* next captured result, if any.
DeleteStudentSettled ==
    \E i \in 1..Len(pending), fail \in BOOLEAN :
        LET c == pending[i]
        IN  /\ c.handler = "deleteStudent"
            /\ Settles(i, fail, FALSE)
            /\ pending' =
                 IF fail \/ c.rest = <<>> THEN dropAt(pending, i)
                 ELSE [pending EXCEPT ![i] =
                         viewCall("deleteStudent", "apiDeleteExamResult",
                                  Head(c.rest), <<>>, Tail(c.rest))]
            /\ dbStudents' = IF ~fail /\ c.api = "apiDeleteStudent"
                             THEN apiDeleteStudent(dbStudents, c.id)
                             ELSE dbStudents
            /\ dbResults' = IF ~fail /\ c.api = "apiDeleteExamResult"
                            THEN apiDeleteExamResult(dbResults, c.id)
                            ELSE dbResults
            /\ UNCHANGED <<listVars, dbClasses, dbDefs>>

\* Lines 600-604: the confirm dialog of the deletion of one result.  No
\* control of App.tsx is bound to this handler.
handleDeleteExamResult ==
    \E ri \in 1..Len(exams) :
        Opens(Dialog("confirm", "deleteExamResult", exams[ri].id, 0, <<>>))

\* Line 606: the onConfirm issues apiDeleteExamResult.
ConfirmDeleteExamResult ==
    /\ dialog.kind = "confirm" /\ dialog.handler = "deleteExamResult"
    /\ Issues("deleteExamResult", "apiDeleteExamResult", dialog.id, <<>>, <<>>, 0)
    /\ UNCHANGED listVars

\* Lines 606-607: the call settles and the result leaves the list.
DeleteExamResultSettled ==
    \E i \in 1..Len(pending), fail \in BOOLEAN :
        LET c == pending[i]
        IN  /\ c.handler = "deleteExamResult"
            /\ Settles(i, fail, FALSE)
            /\ pending' = dropAt(pending, i)
            /\ dbResults' = IF fail THEN dbResults
                            ELSE apiDeleteExamResult(dbResults, c.id)
            /\ exams' = IF fail THEN exams ELSE removeById(exams, c.id)
            /\ UNCHANGED <<students, classes, examDefinitions, dbStudents,
                           dbClasses, dbDefs>>

\* Line 1576: the confirm dialog of the deletion of an exam definition.
handleDeleteExamDefinition ==
    \E di \in 1..Len(examDefinitions) :
        Opens(Dialog("confirm", "deleteExamDefinition", examDefinitions[di].id,
                     0, <<>>))

\* Line 655: the onConfirm issues apiDeleteExamDefinition.
ConfirmDeleteExamDefinition ==
    /\ dialog.kind = "confirm" /\ dialog.handler = "deleteExamDefinition"
    /\ Issues("deleteExamDefinition", "apiDeleteExamDefinition", dialog.id,
              <<>>, <<>>, 0)
    /\ UNCHANGED listVars

\* Lines 655-657: the call settles and the definition leaves the list.
DeleteExamDefinitionSettled ==
    \E i \in 1..Len(pending), fail \in BOOLEAN :
        LET c == pending[i]
        IN  /\ c.handler = "deleteExamDefinition"
            /\ Settles(i, fail, FALSE)
            /\ pending' = dropAt(pending, i)
            /\ dbDefs' = IF fail THEN dbDefs
                         ELSE apiDeleteExamDefinition(dbDefs, c.id)
            /\ examDefinitions' = IF fail THEN examDefinitions
                                  ELSE removeById(examDefinitions, c.id)
            /\ UNCHANGED <<students, classes, exams, dbStudents, dbClasses,
                           dbResults>>

(***************************************************************************)
(* Exam definitions: handleAddExamDefinition (App.tsx 612-626) and         *)
(* handleEditExamDefinition (628-644)                                      *)
(***************************************************************************)
\* Line 1477: the input dialog opens, empty.
handleAddExamDefinition ==
    /\ ViewShown
    /\ Opens(Dialog("input", "addExamDefinition", 0, 0, <<>>))

\* Line 1570: the input dialog opens on a definition of the list.
handleEditExamDefinition ==
    \E di \in 1..Len(examDefinitions) :
        Opens(Dialog("input", "editExamDefinition", examDefinitions[di].id, 0, <<>>))

\* Lines 617-621 and 635-639: the user submits a name and a date (both
\* required by the form); the onSubmit issues apiAddExamDefinition with a
\* fresh id, or apiUpdateExamDefinition.
SubmitExamDefinition ==
    /\ dialog.kind = "input"
    /\ dialog.handler \in {"addExamDefinition", "editExamDefinition"}
    /\ \E input \in DefinitionInputs :
        LET adding == dialog.handler = "addExamDefinition"
            def    == ExamDefinition(IF adding THEN nextId ELSE dialog.id,
                                     input[1], input[2])
        IN  Issues(dialog.handler,
                   IF adding THEN "apiAddExamDefinition"
                   ELSE "apiUpdateExamDefinition",
                   def.id, <<def>>, <<>>, IF adding THEN 1 ELSE 0)
    /\ UNCHANGED listVars

\* Lines 620-621 and 638-639: the call settles and the definition joins
\* the list, or replaces its earlier version.
ExamDefinitionSettled ==
    \E i \in 1..Len(pending), fail \in BOOLEAN :
        LET c        == pending[i]
            updating == c.api = "apiUpdateExamDefinition"
            rejected == updating /\ updateRejected(dbDefs, c.id)
            ok       == ~fail /\ ~rejected
        IN  /\ c.handler \in {"addExamDefinition", "editExamDefinition"}
            /\ Settles(i, fail, rejected)
            /\ pending' = dropAt(pending, i)
            /\ dbDefs' = IF ~ok THEN dbDefs
                         ELSE IF updating THEN apiUpdateExamDefinition(dbDefs, c.data[1])
                         ELSE apiAddExamDefinition(dbDefs, c.data[1])
            /\ examDefinitions' =
                 IF ~ok THEN examDefinitions
                 ELSE IF updating THEN replaceById(examDefinitions, c.data[1])
                 ELSE Append(examDefinitions, c.data[1])
            /\ UNCHANGED <<students, classes, exams, dbStudents, dbClasses,
                           dbResults>>

(***************************************************************************)
(* Classes: handleAddClass (App.tsx 496-509), handleEditClass (511-525),   *)
(* handleDeleteClass (527-541)                                             *)
(***************************************************************************)
\* Line 1799: the input dialog opens, empty.
handleAddClass ==
    /\ ViewShown
    /\ Opens(Dialog("input", "addClass", 0, 0, <<>>))

\* Line 1815: the input dialog opens on a classroom of the list.
handleEditClass ==
    \E ci \in 1..Len(classes) :
        Opens(Dialog("input", "editClass", classes[ci].id, 0, <<>>))

\* Lines 501-505 and 517-521: the user submits a name (required by the
\* form); the onSubmit issues apiAddClass with a fresh id, or
\* apiUpdateClass.
SubmitClass ==
    /\ dialog.kind = "input"
    /\ dialog.handler \in {"addClass", "editClass"}
    /\ \E name \in ClassNameInputs :
        LET adding == dialog.handler = "addClass"
            cls    == Classroom(IF adding THEN nextId ELSE dialog.id, name)
        IN  Issues(dialog.handler,
                   IF adding THEN "apiAddClass" ELSE "apiUpdateClass",
                   cls.id, <<cls>>, <<>>, IF adding THEN 1 ELSE 0)
    /\ UNCHANGED listVars

\* Lines 504-505 and 520-521: the call settles and the classroom joins the
\* list, or replaces its earlier version.
ClassSettled ==
    \E i \in 1..Len(pending), fail \in BOOLEAN :
        LET c        == pending[i]
            updating == c.api = "apiUpdateClass"
            rejected == updating /\ updateRejected(dbClasses, c.id)
            ok       == ~fail /\ ~rejected
        IN  /\ c.handler \in {"addClass", "editClass"}
            /\ Settles(i, fail, rejected)
            /\ pending' = dropAt(pending, i)
            /\ dbClasses' = IF ~ok THEN dbClasses
                            ELSE IF updating THEN apiUpdateClass(dbClasses, c.data[1])
                            ELSE apiAddClass(dbClasses, c.data[1])
            /\ classes' = IF ~ok THEN classes
                          ELSE IF updating THEN replaceById(classes, c.data[1])
                          ELSE Append(classes, c.data[1])
            /\ UNCHANGED <<students, exams, examDefinitions, dbStudents,
                           dbResults, dbDefs>>

\* Lines 527-535 (button of line 1824): a classroom that has students is
\* not deleted, an alert says so; for any other the confirm dialog opens.
handleDeleteClass ==
    \E ci \in 1..Len(classes) :
        IF \E si \in 1..Len(students) : students[si].classroomId = classes[ci].id
        THEN ViewShown /\ OpsLeft /\ Notifies("deleteClass", "classHasStudents")
        ELSE Opens(Dialog("confirm", "deleteClass", classes[ci].id, 0, <<>>))

\* Line 537: the onConfirm issues apiDeleteClass.
ConfirmDeleteClass ==
    /\ dialog.kind = "confirm" /\ dialog.handler = "deleteClass"
    /\ Issues("deleteClass", "apiDeleteClass", dialog.id, <<>>, <<>>, 0)
    /\ UNCHANGED listVars

\* Lines 537-538: the call settles and the classroom leaves the list.
DeleteClassSettled ==
    \E i \in 1..Len(pending), fail \in BOOLEAN :
        LET c == pending[i]
        IN  /\ c.handler = "deleteClass"
            /\ Settles(i, fail, FALSE)
            /\ pending' = dropAt(pending, i)
            /\ dbClasses' = IF fail THEN dbClasses ELSE apiDeleteClass(dbClasses, c.id)
            /\ classes' = IF fail THEN classes ELSE removeById(classes, c.id)
            /\ UNCHANGED <<students, exams, examDefinitions, dbStudents,
                           dbResults, dbDefs>>

(***************************************************************************)
(* The alert of an import, the import box, the session                     *)
(***************************************************************************)
\* A variant without the finally block.
loadingAfterHandler_kept == TRUE

\* finally { setIsLoading(false) } of the import handlers (lines 765-767,
\* 985-987), and setIsLoading(false) before the early return of line 690.
loadingAfterHandler == FALSE

\* The user closes the alert; the handler's finally block runs (lines
\* 985-987, 765-767, 690) and its locals are gone.
DismissAlert ==
    /\ pc = "alert"
    /\ isLoading' = loadingAfterHandler
    /\ pc' = "idle"
    /\ lastAlert' = alertShown
    /\ prevAdded' = addedCount /\ prevUpdated' = updatedCount
    /\ alertShown' = "none"
    /\ lines' = <<>> /\ lineIdx' = 0
    /\ tempClasses' = <<>> /\ tempStudents' = <<>>
    /\ tempExamDefs' = <<>> /\ tempResults' = <<>>
    /\ addedCount' = 0 /\ updatedCount' = 0
    /\ skippedCount' = 0 /\ missingCount' = 0
    /\ processedExamStudentIds' = <<>> /\ involvedClassIdsByExam' = <<>>
    /\ entryIdx' = 0 /\ studentIdx' = 0
    /\ newStudentsPayload' = <<>> /\ classNamesFound' = <<>>
    /\ createdClasses' = <<>> /\ classIdx' = 0 /\ payloadIdx' = 0
    /\ writes' = <<>>
    /\ repeatOf' = "none" /\ prevDbResults' = {}
    /\ startExams' = <<>> /\ startDefs' = <<>>
    /\ UNCHANGED <<listVars, isBatchModalOpen, errorMsg, batchModalMode, dbVars,
                   awaited, viewVars, alertCount, nextId, failures, scope, text,
                   handlerKind, overlapped, nImports, nRepeats, nOps, netVars>>

\* Lines 1053, 1103, 1109: a button of the dashboard or of the students
\* view opens the import modal in a mode.  The modal is an overlay above
\* every view (line 176), so that while it is open only its own controls
\* can be used.
OpenBatchModal ==
    /\ ViewShown
    /\ ImportsLeft \/ (RepeatsLeft /\ handlerKind \in {"result", "student"})
    /\ isBatchModalOpen' = TRUE
    /\ batchModalMode' \in {"student", "result"}
    /\ UNCHANGED <<listVars, isLoading, errorMsg, dbVars, handlerVars, alertVars,
                   viewVars, nextId, failures, scope, writes, obsVars, netVars>>

\* Line 1879, onClose: the modal is closed without an import.
CloseBatchModal ==
    /\ pc = "idle"
    /\ ~isLoading /\ errorMsg = "none"
    /\ isBatchModalOpen
    /\ isBatchModalOpen' = FALSE
    /\ UNCHANGED <<listVars, isLoading, errorMsg, batchModalMode, dbVars,
                   handlerVars, alertVars, viewVars, nextId, failures, scope,
                   writes, obsVars, netVars>>

Next ==
    \/ initData
    \/ OpenBatchModal
    \/ CloseBatchModal
    \/ StartResultImport
    \/ RepeatResultImport
    \/ ResultLineStep
    \/ ResultDefinitionSettled
    \/ ResultWriteSettled
    \/ AbsentStep
    \/ AbsentWriteSettled
    \/ ResultFinish
    \/ StartStudentImport
    \/ RepeatStudentImport
    \/ RosterClassStep
    \/ RosterClassSettled
    \/ RosterStudentStep
    \/ RosterStudentSettled
    \/ RosterFinish
    \/ DismissAlert
    \/ handleOpenExamModal
    \/ SaveExam
    \/ SaveExamSettled
    \/ OpenStudentModal
    \/ SaveStudent
    \/ SaveStudentSettled
    \/ handleDeleteStudent
    \/ ConfirmDeleteStudent
    \/ DeleteStudentSettled
    \/ handleDeleteExamResult
    \/ ConfirmDeleteExamResult
    \/ DeleteExamResultSettled
    \/ handleDeleteExamDefinition
    \/ ConfirmDeleteExamDefinition
    \/ DeleteExamDefinitionSettled
    \/ handleAddExamDefinition
    \/ handleEditExamDefinition
    \/ SubmitExamDefinition
    \/ ExamDefinitionSettled
    \/ handleAddClass
    \/ handleEditClass
    \/ SubmitClass
    \/ ClassSettled
    \/ handleDeleteClass
    \/ ConfirmDeleteClass
    \/ DeleteClassSettled
    \/ CloseDialog
    \/ DismissNotice

\* Every session: those that paste any text of the pools and leave the
\* views alone, and those that use the views and paste fewer texts.
Spec == Init /\ [][Next]_vars

\* The sessions that use the views.
SpecViews == InitViews /\ [][Next]_vars

\* A step of the line loop of the result import, told by what it does to
\* the handler's position: ResultLineStep can be taken whenever the handler
\* is in the loop, and each of its steps moves on to the next line or
\* suspends the handler on a store call of the line.
ResultLineTaken ==
    /\ pc = "result_loop"
    /\ \/ lineIdx' = lineIdx + 1 /\ pc' \in {"result_loop", "result_absent"}
       \/ lineIdx' = lineIdx /\ pc' \in {"result_await_def", "result_await_res"}

\* The session under fairness.  A handler that has been called or resumed
\* runs on until it awaits a store call, shows its alert or returns, so the
\* steps of the two import handlers between their store calls are taken.
\* Whether and when a store call settles, when the user closes an alert and
\* what the user starts is left open.
Fairness ==
    /\ WF_<<pc, lineIdx>>(ResultLineTaken)
    /\ WF_vars(AbsentStep)
    /\ WF_vars(ResultFinish)
    /\ WF_vars(RosterClassStep)
    /\ WF_vars(RosterStudentStep)
    /\ WF_vars(RosterFinish)

SpecLive == InitViews /\ [][Next]_vars /\ Fairness

(***************************************************************************)
(* The class-reassignment reconciler.  No file of src holds it; it is      *)
(* written after sections 4.1, 4.3 and 4.6 of the specification.           *)
(***************************************************************************)
\* Section 4.1: trimmed, lower-cased by the Turkish rules, runs of white
\* space collapsed to one blank.
normalize(str) == join(splitWs(toLocaleLowerCaseTr(trim(str))), <<" ">>)

\* The student of a row: a strict match of the normalized name and surname.
reassignedStudent(studs, row) ==
    firstIndex({k \in 1..Len(studs) :
        /\ normalize(studs[k].name) = normalize(row.name)
        /\ normalize(studs[k].surname) = normalize(row.surname)})

\* A variant that adds the student of a row that matches none, as the
\* roster import does.
unmatchedStudents_added(studs, row, classId, freshId) ==
    Append(studs, Student(freshId, row.name, row.surname, classId,
                          DefaultTargetCorrect))

\* The students after a row that matches none: as before.
unmatchedStudents(studs, row, classId, freshId) == studs

\* Section 4.6, one row.  run holds the snapshot, the store, the counts,
\* the next fresh id and the store calls so far.
reassignRow(row, run) ==
    LET clsIdx  == firstIndex({k \in 1..Len(run.classes) :
                       normalize(run.classes[k].name) = normalize(row.className)})
        created == clsIdx = 0
        cls     == IF created THEN Classroom(run.nextId, row.className)
                   ELSE run.classes[clsIdx]
        afterCls == [run EXCEPT
                        !.classes = IF created THEN Append(@, cls) ELSE @,
                        !.dbClasses = IF created THEN setDoc(@, cls) ELSE @,
                        !.nextId = IF created THEN @ + 1 ELSE @,
                        !.calls = IF created
                                  THEN Append(@, storeCall("createClassroom", cls.id, TRUE))
                                  ELSE @]
        stIdx   == reassignedStudent(run.students, row)
        student == run.students[stIdx]
    IN  IF stIdx = 0
        THEN [afterCls EXCEPT
                 !.notFound = @ + 1,
                 !.students = unmatchedStudents(@, row, cls.id, afterCls.nextId)]
        ELSE IF student.classroomId /= cls.id
        THEN [afterCls EXCEPT
                 !.updated = @ + 1,
                 !.students = [@ EXCEPT ![stIdx].classroomId = cls.id],
                 !.dbStudents =
                    {IF d.id = student.id THEN [d EXCEPT !.classroomId = cls.id]
                     ELSE d : d \in @},
                 !.calls = Append(@, storeCall("updateStudent", student.id, TRUE))]
        ELSE afterCls

RECURSIVE reassignRows(_, _)
reassignRows(rows, run) ==
    IF rows = <<>> THEN run
    ELSE reassignRows(Tail(rows), reassignRow(Head(rows), run))


\* A pasted text of rows "name surname newClassName" is reconciled; the
\* output is {updated, notFound}.
ClassChangeImport ==
    /\ ViewShown
    /\ pending = <<>>
    /\ scope = "views"
    /\ nImports < MaxImports
    /\ \E t \in RosterTexts :
       \E run \in {reassignRows(rosterPayload(nonBlankLines(t)),
                       [classes |-> classes, students |-> students,
                        dbClasses |-> dbClasses, dbStudents |-> dbStudents,
                        updated |-> 0, notFound |-> 0, nextId |-> nextId,
                        calls |-> <<>>])} :
        /\ classes' = run.classes
        /\ students' = run.students
        /\ dbClasses' = run.dbClasses
        /\ dbStudents' = run.dbStudents
        /\ nextId' = run.nextId
        /\ writes' = run.calls
        /\ answer' = [updated |-> run.updated, notFound |-> run.notFound]
        /\ text' = t
    /\ nImports' = nImports + 1
    /\ handlerKind' = "classChange" /\ lastAlert' = "none"
    /\ prevAdded' = 0 /\ prevUpdated' = 0
    /\ UNCHANGED <<exams, examDefinitions, screenVars, dbResults, dbDefs,
                   handlerVars, alertVars, viewVars, failures, scope, repeatOf,
                   prevDbResults, startExams, startDefs, overlapped, nRepeats,
                   nOps, netInput, netOutput, probe>>

\* Class changes between and after manual deletions of students.
NextClassChange ==
    \/ initData
    \/ ClassChangeImport
    \/ handleDeleteStudent
    \/ ConfirmDeleteStudent
    \/ DeleteStudentSettled

SpecClassChange == InitViews /\ [][NextClassChange]_vars

(***************************************************************************)
(* The net computations on their own                                       *)
(***************************************************************************)
\* The scores a result can carry: non-negative, at most QuestionCount in all.
NetInputs ==
    {p \in (0..QuestionCount) \X (0..QuestionCount) : p[1] + p[2] <= QuestionCount}

\* The state a load that succeeded leaves, on the store of the sessions
\* that use the views.
InitLoaded ==
    /\ scope = "views"
    /\ InitStore
    /\ InitHandlers
    /\ students = InitStudents /\ classes = InitClasses
    /\ exams = <<PriorA>> /\ examDefinitions = InitExamDefinitions
    /\ isLoading = FALSE
    /\ pc = "idle"

InitNet ==
    /\ InitLoaded
    /\ netInput \in NetInputs
    /\ netOutput = {}
    /\ probe = <<>>
    /\ answer = <<>>

\* dataService.calculateNet is called on the scores.
CallCalculateNet ==
    /\ \A o \in netOutput : o[1] /= "calculateNet"
    /\ \E fpError \in FpErrors :
         netOutput' = netOutput
            \cup {<<"calculateNet", calculateNet(netInput[1], netInput[2], fpError)>>}
    /\ UNCHANGED <<appVars, dbVars, handlerVars, alertVars, viewVars, nextId,
                   failures, scope, writes, obsVars,
                   netInput, probe, answer>>

\* The result import computes the net of the scores inline (line 905).
ComputeImportNet ==
    /\ \A o \in netOutput : o[1] /= "import"
    /\ \E fpError \in FpErrors :
         netOutput' = netOutput
            \cup {<<"import", importNet(netInput[1], netInput[2], fpError)>>}
    /\ UNCHANGED <<appVars, dbVars, handlerVars, alertVars, viewVars, nextId,
                   failures, scope, writes, obsVars,
                   netInput, probe, answer>>

NextNet ==
    \/ CallCalculateNet
    \/ ComputeImportNet

SpecNet == InitNet /\ [][NextNet]_vars

(***************************************************************************)
(* The name comparisons of the two importers on their own                  *)
(***************************************************************************)
\* Spellings of names of the initial data: other case, blanks around, two
\* blanks between the words, the words in the other order.
NameSpellings ==
    { <<"A","l"," ","V","e">>, <<"a","l"," ","v","e">>,
      <<" ","A","L"," ","V","E"," ">>, <<"A","l"," "," ","V","e">>,
      <<"V","e"," ","A","l">>, <<"A","y"," ","D","e">>,
      <<"8","A">>, <<"8","a">>, <<" ","8","B">>,
      <<"E","1">>, <<"e","1"," ">>,
      <<"U+00A0","a","l"," ","v","e","\f">> }

InitNames ==
    /\ InitLoaded
    /\ netInput = <<0, 0>>
    /\ netOutput = {}
    /\ probe \in NameSpellings \X NameSpellings
    /\ answer = {}

\* What both spellings of the probe come to under the comparisons or the
\* readings of one family, each as <<kind, first, second>>; a family is
\* followed once.
Compared(kinds, results) ==
    /\ \A o \in answer : o[1] \notin kinds
    /\ answer' = answer \cup results
    /\ UNCHANGED <<appVars, dbVars, handlerVars, alertVars, viewVars, nextId,
                   failures, scope, writes, obsVars,
                   netInput, netOutput, probe>>

\* Lines 671-686 and 700: the classroom a roster row names in its last
\* column.
rosterClassOf(spelling) ==
    LET classOf(row) ==
            IF row = <<>> THEN 0 ELSE findClass(classes, row[1].className)
    IN  classOf(rosterRow(tabLine(<< <<"A","l">>, <<"V","e">>, spelling >>)))

\* Lines 671-686 and 724-727: the student a blank-separated roster row names.
rosterStudentOf(spelling) ==
    LET studentOf(row) ==
            IF row = <<>> THEN 0
            ELSE findStudentByName(students, row[1].name, row[1].surname)
    IN  studentOf(rosterRow(spaceLine(<< spelling, <<"8","A">> >>)))

\* Lines 792-867: the exam definition a result row names in its first
\* column.
resultExamOf(spelling) ==
    LET examOf(row) ==
            IF row.kind = "named" THEN resolveExam(row.defs, row.examNameStr) ELSE 0
    IN  examOf(identifyRow(tabLine(<< spelling, <<"A","l"," ","V","e">>, <<"8">>, <<"2">> >>),
                           examDefinitions, students))

\* Lines 792-886: the student a result row names in its second column.
resultStudentOf(spelling) ==
    LET namedStudentOf(row) ==
            IF row.kind = "named" THEN resolveStudent(students, row.studentNameStr)
            ELSE 0
    IN  namedStudentOf(identifyRow(tabLine(<< <<"E","1">>, spelling, <<"8">>, <<"2">> >>),
                              examDefinitions, students))

\* The four comparisons that decide which classroom, student or exam
\* definition a name is, on the two spellings.
CompareNames ==
    Compared({"rosterClass", "rosterStudent", "resultExam", "resultStudent"},
             {<<"rosterClass", rosterClassOf(probe[1]), rosterClassOf(probe[2])>>,
              <<"rosterStudent", rosterStudentOf(probe[1]), rosterStudentOf(probe[2])>>,
              <<"resultExam", resultExamOf(probe[1]), resultExamOf(probe[2])>>,
              <<"resultStudent", resultStudentOf(probe[1]), resultStudentOf(probe[2])>>})

\* Line 774: norm applied to the first spelling, and to what it returned.
ApplyNorm ==
    /\ \A o \in answer : o[1] /= "norm"
    /\ answer' = answer \cup {<<"norm", norm(probe[1]), norm(norm(probe[1]))>>}
    /\ UNCHANGED <<appVars, dbVars, handlerVars, alertVars, viewVars, nextId,
                   failures, scope, writes, obsVars,
                   netInput, netOutput, probe>>

\* Lines 670-686 and 723-727: the name, surname and class name the roster
\* import reads from a line, and the student of the list it then finds
\* (0: none); <<>> when the line yields no payload.
rosterTriple(line) ==
    LET tripleOf(row) ==
            IF row = <<>> THEN <<>>
            ELSE <<row[1].name, row[1].surname, row[1].className,
                   findStudentByName(students, row[1].name, row[1].surname)>>
    IN  tripleOf(rosterRow(line))

\* A spelling as the columns of a sheet: the words but the last, then the
\* last word; one column for a single word.
nameColumns(spelling) ==
    LET words == splitWs(trim(spelling))
    IN  IF Len(words) < 2 THEN <<spelling>>
        ELSE <<join(SubSeq(words, 1, Len(words) - 1), <<" ">>), words[Len(words)]>>

\* The roster row of each spelling for class 8A, pasted as words separated
\* by blanks, as the two columns full name and class, and as the columns
\* name, surname and class.
TokenizeRoster ==
    Compared({"spaced", "fullName", "columns"},
             {<<"spaced", rosterTriple(spaceLine(<<probe[1], <<"8","A">> >>)),
                          rosterTriple(spaceLine(<<probe[2], <<"8","A">> >>))>>,
              <<"fullName", rosterTriple(tabLine(<<probe[1], <<"8","A">> >>)),
                            rosterTriple(tabLine(<<probe[2], <<"8","A">> >>))>>,
              <<"columns",
                rosterTriple(tabLine(Append(nameColumns(probe[1]), <<"8","A">>))),
                rosterTriple(tabLine(Append(nameColumns(probe[2]), <<"8","A">>)))>>})

NextNames ==
    \/ TokenizeRoster
    \/ CompareNames
    \/ ApplyNorm

SpecNames == InitNames /\ [][NextNames]_vars

(***************************************************************************)
(* Properties                                                              *)
(***************************************************************************)
\* The positions of the result import: in one of its loops, suspended on a
\* store call, or at its final alert.
ResultPositions ==
    {"result_loop", "result_await_def", "result_await_res", "result_absent",
     "result_await_absent", "alert"}

\* A result import is in progress or shows its final alert: its locals are
\* those of the handler.
InResultImport == handlerKind = "result" /\ pc \in ResultPositions

\* The positions at which an import handler is suspended on a store call.
AwaitPositions == SettlePositions \ {"idle"}

\* The store call the import handler is suspended on settles in this step.
\* The handler logs each of its calls, and the handlers of the views log
\* theirs elsewhere.
ImportCallSettled == pc \in AwaitPositions /\ writes' /= writes

\* A step of an import handler: between two store calls nothing else runs,
\* and at a store call the step is the one in which the call settles.
ImportStepTaken ==
    \/ pc \in {"result_loop", "result_absent", "roster_classes", "roster_students"}
    \/ ImportCallSettled

\* The ids of the documents the store calls of the current invocation wrote.
writtenIds == {writes[k].id : k \in {j \in 1..Len(writes) : writes[j].ok}}

\* The result import has run to its summary.
ResultImportDone == handlerKind = "result" /\ pc = "alert" /\ alertShown = "summary"

\* The positions of the results of a student for an exam.
pairRows(results, studentId, examId) ==
    {i \in 1..Len(results) :
        results[i].studentId = studentId /\ results[i].examId = examId}

\* No two results of the list, and no two of the set, are of the same
\* student for the same exam.
noDuplicateInList(results) ==
    \A i, j \in 1..Len(results) :
        (results[i].studentId = results[j].studentId
            /\ results[i].examId = results[j].examId) => i = j
noDuplicateInStore(docs) ==
    \A a, b \in docs :
        (a.studentId = b.studentId /\ a.examId = b.examId) => a = b

\* The line the result import is at names, as its exam, a name that is the
\* normalized name of no exam definition.
lineNamesUnknownExam(line, defs, studs) ==
    \E row \in {identifyRow(line, defs, studs)} :
        /\ row.kind = "named"
        /\ \A k \in 1..Len(row.defs) : norm(row.defs[k].name) /= norm(row.examNameStr)

\* C1: a result row whose exam name is, after normalization, the name of
\* no exam definition causes no store write and creates no exam
\* definition: the step that processes it issues no store call, and a
\* result import never calls apiAddExamDefinition and keeps the set of
\* exam definitions it started from.
C1_UnknownExamWritesNothing ==
    /\ [][(pc = "result_loop"
             /\ lineNamesUnknownExam(lines[lineIdx], tempExamDefs, tempStudents))
           => /\ awaited' = <<>>
              /\ writes' = writes
              /\ Range(tempExamDefs') = Range(tempExamDefs)]_vars
    /\ [](InResultImport =>
            /\ \A k \in 1..Len(writes) : writes[k].api /= "apiAddExamDefinition"
            /\ Range(tempExamDefs) = Range(startDefs))

\* C2: as long as no store write has failed, the results in memory and the
\* results in the store hold at most one result per student and exam, and
\* so does the working copy of a result import.
C2_OneResultPerStudentAndExam ==
    failures = 0 =>
        /\ noDuplicateInList(exams)
        /\ noDuplicateInStore(dbResults)
        /\ InResultImport => noDuplicateInList(tempResults)

\* When every handler started with no store call of another handler
\* outstanding, the lists and the store hold at most one result per student
\* and exam.
C2_ButWithoutOverlap ==
    (failures = 0 /\ ~overlapped) =>
        /\ noDuplicateInList(exams)
        /\ noDuplicateInStore(dbResults)
        /\ InResultImport => noDuplicateInList(tempResults)

\* A manual save has settled and a result import has then written a result,
\* with no handler overlapping another.
C2_ButWithoutOverlapWitness ==
    /\ failures = 0 /\ ~overlapped
    /\ handlerKind = "result" /\ pc = "alert" /\ writes /= <<>>
    /\ \E k \in 1..Len(viewCalls) :
          viewCalls[k].api = "apiAddExamResult" /\ viewCalls[k].ok

\* C3: when a result import that completed is run again on the same text
\* with nothing in between and completes, the second run adds nothing,
\* marks nobody absent, counts as updated what the first run added or
\* updated, and leaves the stored results as the first run left them.
C3_SecondRunOnlyUpdates ==
    (ResultImportDone /\ repeatOf = "summary") =>
        /\ addedCount = 0
        /\ missingCount = 0
        /\ updatedCount = prevAdded + prevUpdated
        /\ dbResults = prevDbResults


\* C3 for the sessions in which no result import has created an exam
\* definition.
C3_ButNoNewDefinition ==
    (\A d \in dbDefs : d.id < FirstFreshId) => C3_SecondRunOnlyUpdates

\* A second run that created no definition has completed and has updated a
\* result.
C3_ButNoNewDefinitionWitness ==
    /\ \A d \in dbDefs : d.id < FirstFreshId
    /\ ResultImportDone /\ repeatOf = "summary" /\ updatedCount > 0

\* The text of the batch has a line that gives these scores to the student
\* at this position of the students, for this exam.
pastedScores(position, examId, correct, incorrect) ==
    \E l \in 1..Len(lines) :
    \E row \in {identifyRow(lines[l], startDefs, tempStudents)} :
        /\ row.kind = "named"
        /\ row.correct = correct /\ row.incorrect = incorrect
        /\ resolveStudent(tempStudents, row.studentNameStr) = position
        /\ \E d \in {resolveExam(row.defs, row.examNameStr)} :
             d > 0 /\ row.defs[d].id = examId

\* The students the batch leaves unseen for the exam of an entry of
\* involvedClassIdsByExam although their classroom is involved, and that
\* had no result for it when the batch started.
absentees(entry) ==
    {si \in 1..Len(tempStudents) :
        /\ tempStudents[si].classroomId \in involvedClassIdsByExam[entry][2]
        /\ tempStudents[si].id
             \notin mapGet(processedExamStudentIds, involvedClassIdsByExam[entry][1])
        /\ pairRows(startExams, tempStudents[si].id,
                    involvedClassIdsByExam[entry][1]) = {}}

\* C4: when a result import completes, for every exam X that existed when
\* it started and every classroom with an accepted row for X: a student of
\* the classroom seen for X has exactly one result for X, ATTENDED, with
\* scores pasted for that student, empty = 10 - correct - incorrect and net
\* = (100 correct - 33 incorrect) / 100; a student of the classroom not
\* seen and without a prior result for X has exactly one result for X,
\* MISSING with all numbers zero; both were written by a store call of the
\* batch that succeeded; and the absent
\* count is the number of these absent students.
C4_AutoAbsent ==
    ResultImportDone =>
        /\ \A k \in 1..Len(involvedClassIdsByExam) :
           \A si \in 1..Len(tempStudents) :
            LET examId == involvedClassIdsByExam[k][1]
                st     == tempStudents[si]
                rows   == pairRows(tempResults, st.id, examId)
            IN  (/\ \E d \in 1..Len(startDefs) : startDefs[d].id = examId
                 /\ st.classroomId \in involvedClassIdsByExam[k][2])
                =>
                IF st.id \in mapGet(processedExamStudentIds, examId)
                THEN /\ Cardinality(rows) = 1
                     /\ \A i \in rows :
                          /\ tempResults[i].status = "ATTENDED"
                          /\ pastedScores(si, examId, tempResults[i].correct,
                                          tempResults[i].incorrect)
                          /\ tempResults[i].empty =
                               10 - tempResults[i].correct - tempResults[i].incorrect
                          /\ tempResults[i].net =
                               100 * tempResults[i].correct - 33 * tempResults[i].incorrect
                          /\ tempResults[i].id \in writtenIds
                ELSE si \in absentees(k) =>
                     /\ Cardinality(rows) = 1
                     /\ \A i \in rows :
                          /\ tempResults[i].status = "MISSING"
                          /\ tempResults[i].correct = 0 /\ tempResults[i].incorrect = 0
                          /\ tempResults[i].empty = 0 /\ tempResults[i].net = 0
                          /\ tempResults[i].id \in writtenIds
        /\ missingCount =
             Cardinality({p \in (1..Len(involvedClassIdsByExam)) \X (1..Len(tempStudents)) :
                             p[2] \in absentees(p[1])})

\* The batch gave 8 and 2 to one student and 6 and 3 to another of the same
\* classroom, whose third student had no result: nets 7.34 and 5.01, one
\* MISSING result, one absent counted.
C4_Witness ==
    /\ ResultImportDone
    /\ missingCount = 1
    /\ \E a, b, c \in 1..Len(tempResults) :
        /\ tempResults[a].studentId = StudentA.id /\ tempResults[a].status = "ATTENDED"
        /\ tempResults[a].correct = 8 /\ tempResults[a].incorrect = 2
        /\ tempResults[a].empty = 0 /\ tempResults[a].net = 734
        /\ tempResults[b].studentId = StudentB.id /\ tempResults[b].status = "ATTENDED"
        /\ tempResults[b].correct = 6 /\ tempResults[b].incorrect = 3
        /\ tempResults[b].empty = 1 /\ tempResults[b].net = 501
        /\ tempResults[c].studentId = StudentC.id /\ tempResults[c].status = "MISSING"
        /\ tempResults[c].net = 0 /\ tempResults[c].id >= FirstFreshId
        /\ tempResults[a].examId = ExamE1.id
        /\ tempResults[b].examId = ExamE1.id
        /\ tempResults[c].examId = ExamE1.id

\* C5: when a result import completes, a result that a student had for an
\* exam when the batch started, the student not being seen for that exam
\* in the batch, is where it was and as it was, is the only result of the
\* pair, and no store call of the batch wrote it or another result of the
\* pair; and throughout a result import no result that was ATTENDED when
\* the batch started is MISSING in the working copy, and a MISSING result
\* that the batch writes, or has written, is a new result of a student who
\* had no result for the exam when the batch started.
C5_ExistingResultKept ==
    /\ ResultImportDone =>
         \A i \in 1..Len(startExams) :
            (~(/\ mapHas(processedExamStudentIds, startExams[i].examId)
               /\ startExams[i].studentId
                    \in mapGet(processedExamStudentIds, startExams[i].examId)))
            => /\ tempResults[i] = startExams[i]
               /\ pairRows(tempResults, startExams[i].studentId,
                           startExams[i].examId) = {i}
               /\ \A d \in dbResults :
                    (d.studentId = startExams[i].studentId
                        /\ d.examId = startExams[i].examId) => d.id \notin writtenIds
    /\ InResultImport =>
         /\ \A i \in 1..Len(startExams) :
              startExams[i].status = "ATTENDED" => tempResults[i].status = "ATTENDED"
         /\ \A j \in 1..Len(tempResults) :
              (tempResults[j].status = "MISSING" /\ tempResults[j].id \in writtenIds)
                => \A i \in 1..Len(startExams) : startExams[i].id /= tempResults[j].id
         /\ pc = "result_await_absent" =>
              \E d \in {awaited[1].data} :
                 /\ d.status = "MISSING"
                 /\ \A i \in 1..Len(startExams) : startExams[i].id /= d.id
                 /\ pairRows(startExams, d.studentId, d.examId) = {}

\* A batch completed that involved the classroom of a student who was not
\* seen but had an ATTENDED result, and marked another student absent.
C5_Witness ==
    /\ ResultImportDone
    /\ missingCount >= 1
    /\ \E i \in 1..Len(startExams), k \in 1..Len(involvedClassIdsByExam) :
        /\ startExams[i].status = "ATTENDED"
        /\ startExams[i].examId = involvedClassIdsByExam[k][1]
        /\ startExams[i].studentId \notin mapGet(processedExamStudentIds,
                                                 startExams[i].examId)
        /\ \E si \in 1..Len(tempStudents) :
             /\ tempStudents[si].id = startExams[i].studentId
             /\ tempStudents[si].classroomId \in involvedClassIdsByExam[k][2]


\* What the step of the result import on a row that names the exam
\* definition at defIdx and the student at stuIdx and carries the scores of
\* `row` must do when its store write succeeds.
upsertDone(row, defIdx, stuIdx) ==
    LET studentId == tempStudents[stuIdx].id
        examId    == row.defs[defIdx].id
        existing  == pairRows(tempResults, studentId, examId)
        n         == Len(tempResults)
        pasted(r) == /\ r.studentId = studentId /\ r.examId = examId
                     /\ r.status = "ATTENDED"
                     /\ r.correct = row.correct /\ r.incorrect = row.incorrect
                     /\ r.empty = 10 - row.correct - row.incorrect
                     /\ r \in dbResults'
    IN  IF existing /= {}
        THEN /\ Len(tempResults') = n
             /\ \E i \in existing :
                  /\ tempResults'[i].id = tempResults[i].id
                  /\ pasted(tempResults'[i])
                  /\ \A j \in 1..n : j /= i => tempResults'[j] = tempResults[j]
             /\ updatedCount' = updatedCount + 1
             /\ addedCount' = addedCount
        ELSE /\ Len(tempResults') = n + 1
             /\ SubSeq(tempResults', 1, n) = tempResults
             /\ pasted(tempResults'[n + 1])
             /\ \A j \in 1..n : tempResults[j].id /= tempResults'[n + 1].id
             /\ \A d \in dbResults : d.id /= tempResults'[n + 1].id
             /\ addedCount' = addedCount + 1
             /\ updatedCount' = updatedCount

\* C6: the result write of a row that passes validation and names an exam
\* definition and a student, when it succeeds, either rewrites the one
\* existing result of the pair in place, keeping its id, and counts one
\* more updated, or appends exactly one result with an id no result has
\* and counts one more added; the result written is ATTENDED with the
\* pasted scores, in the working copy and in the store.
C6_UpsertInPlace ==
    [][(pc = "result_await_res" /\ writes' /= writes /\ pc' /= "alert")
        => \A row \in {identifyRow(lines[lineIdx], tempExamDefs, tempStudents)} :
           /\ row.kind = "named"
           /\ \A defIdx \in {resolveExam(row.defs, row.examNameStr)},
                 stuIdx \in {resolveStudent(tempStudents, row.studentNameStr)} :
                /\ defIdx > 0 /\ stuIdx > 0
                /\ upsertDone(row, defIdx, stuIdx)]_vars

\* A result import has updated a result in place, a MISSING one that is now
\* ATTENDED, and has added one.
C6_Witness ==
    /\ InResultImport /\ pc /= "alert"
    /\ updatedCount >= 1 /\ addedCount >= 1
    /\ \E i \in 1..Len(startExams) :
        /\ startExams[i].status = "MISSING"
        /\ tempResults[i].id = startExams[i].id
        /\ tempResults[i].status = "ATTENDED"
        /\ tempResults[i].correct + tempResults[i].incorrect > 0
    /\ Len(tempResults) > Len(startExams)

\* C7: after a result import that a store failure aborted, the results in
\* memory contain every result of the store; and when the same text is
\* then imported again and the import completes, the store holds at most
\* one result per student and exam.
C7_RerunAfterAbortUpdates ==
    /\ (pc = "idle" /\ handlerKind = "result" /\ lastAlert = "failure")
         => \A d \in dbResults : \E i \in 1..Len(exams) : exams[i] = d
    /\ (ResultImportDone /\ repeatOf = "failure") => noDuplicateInStore(dbResults)

\* The collection a store call writes to, among the four given.
collectionOf(api, studentDocs, classDocs, resultDocs, defDocs) ==
    CASE api \in {"apiAddExamResult", "apiUpdateExamResult"} -> resultDocs
      [] api = "apiAddExamDefinition" -> defDocs
      [] api \in {"apiAddStudent", "apiUpdateStudent"} -> studentDocs
      [] api = "apiAddClass" -> classDocs

\* The ids of the documents of a collection.
idsOf(docs) == {d.id : d \in docs}

\* C8: in a roster or result import, a store call that failed is the last
\* store call of the batch, no call is awaited after it, and the batch then
\* shows the failure alert, its only alert, and never the summary; the
\* call that failed leaves the store as it was, a call that succeeded has
\* its document in the store, and no step of the import removes a document.
C8_FailureStopsBatch ==
    /\ []((handlerKind \in {"result", "student"} /\ pc /= "idle") =>
            /\ \A k \in 1..Len(writes) :
                 ~writes[k].ok =>
                    /\ k = Len(writes) /\ awaited = <<>>
                    /\ pc = "alert" /\ alertShown = "failure" /\ alertCount = 1
            /\ (pc = "alert" /\ alertShown = "failure")
                 => Len(writes) >= 1 /\ ~writes[Len(writes)].ok)
    /\ [][(handlerKind \in {"result", "student"} /\ ImportStepTaken) =>
            /\ idsOf(dbStudents) \subseteq idsOf(dbStudents')
            /\ idsOf(dbClasses) \subseteq idsOf(dbClasses')
            /\ idsOf(dbResults) \subseteq idsOf(dbResults')
            /\ idsOf(dbDefs) \subseteq idsOf(dbDefs')
            /\ writes' /= writes =>
                 \E c \in {writes'[Len(writes')]} :
                    /\ writes' = Append(writes, c)
                    /\ c.ok => docExists(collectionOf(c.api, dbStudents', dbClasses',
                                                      dbResults', dbDefs'), c.id)
                    /\ ~c.ok => <<dbStudents', dbClasses', dbResults', dbDefs'>>
                                   = <<dbStudents, dbClasses, dbResults, dbDefs>>]_vars

\* A result import was aborted by its third store call; the result its
\* second call wrote is in the store.
C8_Witness ==
    /\ pc = "alert" /\ alertShown = "failure"
    /\ handlerKind = "result"
    /\ Len(writes) = 3 /\ writes[1].ok /\ writes[2].ok /\ ~writes[3].ok
    /\ docExists(dbResults, writes[2].id)


\* The text of a field is an integer: digits, after an optional sign.
isIntegerText(field) ==
    \E t \in {trim(field)} :
    \E digits \in {IF t /= <<>> /\ t[1] \in {"-", "+"} THEN Tail(t) ELSE t} :
        digits /= <<>> /\ \A k \in 1..Len(digits) : digits[k] \in DigitSet

\* The line has at least three fields and one of its two score fields is
\* not an integer, or the two scores add up to more than 10.
scoresInvalid(line) ==
    \E parts \in {resultParts(line)} :
        /\ Len(parts) >= 3
        /\ \/ ~isIntegerText(parts[Len(parts) - 1])
           \/ ~isIntegerText(parts[Len(parts)])
           \/ parseInt(parts[Len(parts) - 1]).value + parseInt(parts[Len(parts)]).value > 10

\* The line has at least three fields and its two score fields are
\* integers that add up to 10.
scoresFillExam(line) ==
    \E parts \in {resultParts(line)} :
        /\ Len(parts) >= 3
        /\ isIntegerText(parts[Len(parts) - 1])
        /\ isIntegerText(parts[Len(parts)])
        /\ parseInt(parts[Len(parts) - 1]).value + parseInt(parts[Len(parts)]).value = 10

\* C9: a step of the result import on a row whose scores add up to more
\* than 10, or one of whose score fields is not an integer, counts one more
\* skipped, issues no store call, records no student as seen and no
\* classroom as involved, and goes on to the next line; a row whose scores
\* add up to 10 and that is written, is written with empty = 0.
C9_InvalidScoresSkipped ==
    /\ [][(pc = "result_loop" /\ scoresInvalid(lines[lineIdx])) =>
             /\ skippedCount' = skippedCount + 1
             /\ awaited' = <<>>
             /\ writes' = writes
             /\ processedExamStudentIds' = processedExamStudentIds
             /\ involvedClassIdsByExam' = involvedClassIdsByExam
             /\ lineIdx' = lineIdx + 1]_vars
    /\ []((pc = "result_await_res" /\ scoresFillExam(lines[lineIdx]))
             => awaited[1].data.empty = 0)

\* C10: calculateNet and the net computed inline by the result import both
\* return (100 correct - 33 incorrect) / 100 for non-negative scores that
\* add up to at most 10, so they agree.
C10_NetExact ==
    /\ \A o \in netOutput : o[2] = 100 * netInput[1] - 33 * netInput[2]
    /\ \A o1, o2 \in netOutput : o1[2] = o2[2]

\* Both computations have returned 7.34 for 8 correct and 2 incorrect.
C10_Witness ==
    /\ netInput = <<8, 2>>
    /\ netOutput = {<<"calculateNet", 734>>, <<"import", 734>>}


\* C11: every ATTENDED result that a store call of the result import
\* writes has correct, incorrect and empty between 0 and 10, adding up to
\* 10.
C11_AttendedScoresInRange ==
    [][(pc = "result_await_res" /\ writes' /= writes /\ writes'[Len(writes')].ok) =>
        \A d \in {awaited[1].data} :
            d.status = "ATTENDED" =>
                /\ d.correct \in 0..QuestionCount
                /\ d.incorrect \in 0..QuestionCount
                /\ d.empty \in 0..QuestionCount
                /\ d.correct + d.incorrect + d.empty = QuestionCount]_vars


\* The scores and the net of a result are all zero.
allZero(result) ==
    /\ result.correct = 0 /\ result.incorrect = 0
    /\ result.empty = 0 /\ result.net = 0

\* C12: every result with status MISSING, in the store, in the list of
\* results in memory and in the working copy of an import, has correct,
\* incorrect, empty and net all 0: the auto-absent step of the result
\* import and the save of the result form with the absent box checked
\* write nothing else.
C12_MissingIsZero ==
    \A d \in dbResults \cup Range(exams) \cup Range(tempResults) :
        d.status = "MISSING" => allZero(d)

\* A result import has ended with at least one student marked absent,
\* after the result form saved a new result with the absent box checked.
C12_Witness ==
    /\ ResultImportDone
    /\ missingCount >= 1
    /\ \E k \in 1..Len(viewCalls) :
          /\ viewCalls[k].api = "apiAddExamResult" /\ viewCalls[k].ok
          /\ \E d \in dbResults : d.id = viewCalls[k].id /\ d.status = "MISSING"


\* A roster import is at its summary alert.
RosterImportDone == handlerKind = "student" /\ pc = "alert" /\ alertShown = "summary"

\* The positions of the students a roster row names, and the ids of the
\* classrooms it names, both case-insensitively.
rowStudents(studs, row) ==
    {k \in 1..Len(studs) :
        /\ toLocaleLowerCaseTr(studs[k].name) = toLocaleLowerCaseTr(row.name)
        /\ toLocaleLowerCaseTr(studs[k].surname) = toLocaleLowerCaseTr(row.surname)}
rowClassIds(classList, row) ==
    {classList[k].id : k \in {j \in 1..Len(classList) :
        toLowerCase(classList[j].name) = toLowerCase(row.className)}}

\* The log of store calls grew by one successful call of `api` on `id`.
oneMoreCall(before, after, api, id) ==
    after = Append(before, storeCall(api, id, TRUE))

\* What the step of the roster import on `row` did, from the working copy
\* and counts before it to those after it.
rosterUpsert(row, studs, studsAfter, classIds, callsBefore, callsAfter, docs, docsAfter, counts, countsAfter) ==
    LET matches == rowStudents(studs, row)
        k       == firstIndex(matches)
    IN  /\ (k > 0 /\ studs[k].classroomId \notin classIds) =>
              /\ Len(studsAfter) = Len(studs)
              /\ \A i \in 1..Len(studs) : i /= k => studsAfter[i] = studs[i]
              /\ \E c \in classIds :
                    studsAfter[k] = [studs[k] EXCEPT !.classroomId = c]
              /\ oneMoreCall(callsBefore, callsAfter, "apiUpdateStudent", studs[k].id)
              /\ {d.id : d \in docsAfter} = {d.id : d \in docs}
              /\ countsAfter = <<counts[1], counts[2] + 1, counts[3]>>
        /\ (k > 0 /\ studs[k].classroomId \in classIds) =>
              /\ studsAfter = studs
              /\ callsAfter = callsBefore
              /\ docsAfter = docs
              /\ countsAfter = <<counts[1], counts[2], counts[3] + 1>>
        /\ (k = 0 /\ classIds /= {}) =>
              /\ Len(studsAfter) = Len(studs) + 1
              /\ SubSeq(studsAfter, 1, Len(studs)) = studs
              /\ studsAfter[Len(studsAfter)].name = row.name
              /\ studsAfter[Len(studsAfter)].surname = row.surname
              /\ studsAfter[Len(studsAfter)].classroomId \in classIds
              /\ \A i \in 1..Len(studs) :
                    studs[i].id /= studsAfter[Len(studsAfter)].id
              /\ oneMoreCall(callsBefore, callsAfter, "apiAddStudent",
                             studsAfter[Len(studsAfter)].id)
              /\ Cardinality(docsAfter) = Cardinality(docs) + 1
              /\ countsAfter = <<counts[1] + 1, counts[2], counts[3]>>
        \* the same row, and a later row of the same name, now finds that
        \* student in the classroom the row names; no second one was made
        /\ classIds /= {} =>
              /\ rowStudents(studsAfter, row) /= {}
              /\ studsAfter[firstIndex(rowStudents(studsAfter, row))].classroomId
                    \in classIds
              /\ Cardinality(rowStudents(studsAfter, row))
                    = (IF matches = {} THEN 1 ELSE Cardinality(matches))

\* C13: the roster import on a row, when its store call, if any, succeeds:
\* on a row naming an existing student of another classroom it changes
\* that student's classroomId only, calls apiUpdateStudent once and counts
\* one more updated; on a row naming a student already in the row's
\* classroom it counts one more skipped and issues no store call; on a row
\* naming no student it appends exactly one student, calls apiAddStudent
\* once and counts one more added; afterwards the row's name finds that
\* one student in the row's classroom.  A store call is issued for such
\* rows only.  A one-row text imported again right after a run that
\* reached its summary is skipped with no store call.
C13_RosterUpsert ==
    /\ [][(handlerKind = "student"
             /\ (pc = "roster_students" \/ pc = "roster_await_student")
             /\ payloadIdx' = payloadIdx + 1)
          => rosterUpsert(newStudentsPayload[payloadIdx], tempStudents,
                          tempStudents', rowClassIds(tempClasses, newStudentsPayload[payloadIdx]),
                          writes, writes', dbStudents, dbStudents',
                          <<addedCount, updatedCount, skippedCount>>,
                          <<addedCount', updatedCount', skippedCount'>>)]_vars
    /\ [][(pc = "roster_students" /\ pc' = "roster_await_student") =>
            \E row \in {newStudentsPayload[payloadIdx]} :
            \E k \in {firstIndex(rowStudents(tempStudents, row))} :
                /\ tempStudents' = tempStudents /\ writes' = writes
                /\ k = 0 \/ tempStudents[k].classroomId
                               \notin rowClassIds(tempClasses, row)
                /\ Len(awaited') = 1
                /\ awaited'[1].api = IF k = 0 THEN "apiAddStudent"
                                     ELSE "apiUpdateStudent"]_vars
    /\ [](RosterImportDone /\ repeatOf = "summary" /\ Len(newStudentsPayload) = 1
            => /\ writes = <<>>
               /\ <<addedCount, updatedCount, skippedCount>> = <<0, 0, 1>>)

\* The row "Al Ve 8B" moved the student of 8A to 8B in a first run, and the
\* same text imported again has been skipped without a store call.
C13_Witness ==
    /\ RosterImportDone
    /\ repeatOf = "summary"
    /\ prevUpdated = 1
    /\ skippedCount = 1 /\ writes = <<>>
    /\ students[1] = [StudentA EXCEPT !.classroomId = Class8B.id]


\* A roster import is in progress or shows its final alert: its locals are
\* those of the handler.
InRosterImport ==
    handlerKind = "student"
        /\ pc \in {"roster_classes", "roster_await_class", "roster_students",
                   "roster_await_student", "alert"}

\* No two classrooms of the list, and no two of the set, have names that
\* are equal case-insensitively.
distinctClassNames(classList) ==
    \A i, j \in 1..Len(classList) :
        toLowerCase(classList[i].name) = toLowerCase(classList[j].name) => i = j
distinctClassNamesInStore(docs) ==
    \A a, b \in docs : toLowerCase(a.name) = toLowerCase(b.name) => a = b

\* The classrooms the roster import started from: its working copy without
\* the classrooms it has created.
snapshotClasses == SubSeq(tempClasses, 1, Len(tempClasses) - Len(createdClasses))

\* C14: the class loop of the roster import issues a store call only when
\* no classroom of the working copy (the snapshot and the classrooms
\* created earlier in the batch) has the name case-insensitively, and then
\* the call is one apiAddClass of a new classroom of that name, which joins
\* the working copy and the store when the call succeeds; so a working
\* copy that started without two classrooms of case-insensitively equal
\* names never holds two, nor do, in a session of imports in which no
\* store call has failed, the classrooms in memory and in the store; and
\* when the student loop runs each row of the batch names a classroom of
\* the working copy.
C14_ClassroomCreatedOnce ==
    /\ [][pc = "roster_classes" =>
            /\ tempClasses' = tempClasses /\ writes' = writes
            /\ dbClasses' = dbClasses
            /\ awaited' /= <<>> =>
                 /\ \A k \in 1..Len(tempClasses) :
                        toLowerCase(tempClasses[k].name)
                            /= toLowerCase(classNamesFound[classIdx])
                 /\ Len(awaited') = 1
                 /\ awaited'[1].api = "apiAddClass"
                 /\ awaited'[1].data.name = classNamesFound[classIdx]
                 /\ \A k \in 1..Len(tempClasses) :
                        tempClasses[k].id /= awaited'[1].data.id]_vars
    /\ [][(pc = "roster_await_class" /\ writes' /= writes) =>
            IF writes'[Len(writes')].ok
            THEN /\ tempClasses' = Append(tempClasses, awaited[1].data)
                 /\ oneMoreCall(writes, writes', "apiAddClass", awaited[1].data.id)
                 /\ dbClasses' = dbClasses \cup {awaited[1].data}
            ELSE tempClasses' = tempClasses /\ dbClasses' = dbClasses]_vars
    /\ [](/\ InRosterImport =>
               (distinctClassNames(snapshotClasses) => distinctClassNames(tempClasses))
          /\ nOps = 0 => distinctClassNames(classes)
          /\ (nOps = 0 /\ failures = 0) => distinctClassNamesInStore(dbClasses)
          /\ (handlerKind = "student"
                /\ pc \in {"roster_students", "roster_await_student"}) =>
                \A i \in 1..Len(newStudentsPayload) :
                    \E ids \in {rowClassIds(tempClasses, newStudentsPayload[i])} :
                        /\ ids /= {}
                        /\ distinctClassNames(snapshotClasses) => Cardinality(ids) = 1)

\* A roster import whose rows name the new classroom as "8C" and as "8c"
\* has ended with one classroom created and both students rows resolved.
C14_Witness ==
    /\ RosterImportDone
    /\ Len(classNamesFound) = 2
    /\ Len(createdClasses) = 1
    /\ Len(classes) = Len(InitClasses) + 1
    /\ Cardinality(dbClasses) = Len(InitClasses) + 1
    /\ addedCount + updatedCount + skippedCount = 2


\* Every document of `docs` is still in `docsAfter` with the same id, name,
\* surname and targetCorrect.
studentsKept(docs, docsAfter) ==
    \A d \in docs : \E e \in docsAfter :
        /\ e.id = d.id /\ e.name = d.name /\ e.surname = d.surname
        /\ e.targetCorrect = d.targetCorrect

\* A step of the roster import.
RosterStepTaken ==
    /\ handlerKind = "student"
    /\ \/ pc \in {"roster_classes", "roster_students"}
       \/ pc \in {"roster_await_class", "roster_await_student"} /\ writes' /= writes

\* What a step of the roster import leaves alone, apart from the
\* targetCorrect of the students it creates.
rosterFrame ==
    /\ dbResults' = dbResults /\ dbDefs' = dbDefs
    /\ exams' = exams /\ examDefinitions' = examDefinitions
    /\ {c.id : c \in dbClasses} \subseteq {c.id : c \in dbClasses'}
    /\ Range(classes) \subseteq Range(classes')
    /\ studentsKept(dbStudents, dbStudents')
    /\ studentsKept(Range(students), Range(students'))
    /\ (pc = "roster_await_student"
          => studentsKept(Range(tempStudents), Range(tempStudents')))
    /\ (pc /= "roster_await_student" => tempStudents' = tempStudents)

\* The students the step created have targetCorrect = 6, in the working
\* copy and in the store.
createdWithDefaultTarget ==
    /\ \A s \in Range(tempStudents') \ Range(tempStudents) :
          (\A t \in Range(tempStudents) : t.id /= s.id)
             => s.targetCorrect = DefaultTargetCorrect
    /\ \A d \in dbStudents' :
          (\A e \in dbStudents : e.id /= d.id)
             => d.targetCorrect = DefaultTargetCorrect

\* C15: a step of the roster import deletes no classroom and no student,
\* leaves the results and the exam definitions in memory and in the store
\* as they are, keeps id, name, surname and targetCorrect of every existing
\* student, and gives each student it creates targetCorrect = 6 in the
\* working copy and in the store.
C15_RosterFrame ==
    [][RosterStepTaken => (rosterFrame /\ createdWithDefaultTarget)]_vars


\* The number of lines of a pasted text that hold a character other than
\* white space.
nonBlankCount(t) ==
    LET pasted == split(t, "\n")
    IN  Cardinality({i \in 1..Len(pasted) :
                        \E k \in 1..Len(pasted[i]) : ~IsWhiteSpace(pasted[i][k])})

\* C16: in a result import in which no store call has failed, added +
\* updated + skipped is the number of lines processed so far, so after the
\* line loop and at the summary it is the number of non-blank lines of the
\* text; and the step on a line of fewer than three fields counts one more
\* skipped, issues no store call and goes on to the next line.
C16_EveryLineCounted ==
    /\ []((InResultImport /\ alertShown /= "failure") =>
            IF pc \in {"result_loop", "result_await_def", "result_await_res"}
            THEN addedCount + updatedCount + skippedCount = lineIdx - 1
            ELSE addedCount + updatedCount + skippedCount = nonBlankCount(text))
    /\ [][(pc = "result_loop" /\ Len(resultParts(lines[lineIdx])) < 3) =>
            /\ skippedCount' = skippedCount + 1
            /\ <<addedCount', updatedCount'>> = <<addedCount, updatedCount>>
            /\ awaited' = <<>>
            /\ writes' = writes
            /\ lineIdx' = lineIdx + 1
            /\ pc' \in {"result_loop", "result_absent"}]_vars

\* A result import of a line of too few fields, then a row that was added,
\* has reached its summary: one skipped, one added, two non-blank lines.
C16_Witness ==
    /\ ResultImportDone
    /\ Len(lines) = 2
    /\ Len(resultParts(lines[1])) < 3
    /\ skippedCount = 1 /\ addedCount = 1 /\ updatedCount = 0
    /\ nonBlankCount(text) = 2


\* C17: at the summary of a roster import, added + updated + skipped is
\* the number of non-blank lines of the pasted text, a line that yields
\* fewer than two fields being counted as skipped.
C17_RosterEveryLineCounted ==
    RosterImportDone =>
        addedCount + updatedCount + skippedCount = nonBlankCount(text)

\* C17 for the lines that yield a row: at the summary of a roster import,
\* added + updated + skipped is the number of rows parsed from the text.
C17_RosterEveryRowCounted ==
    RosterImportDone =>
        addedCount + updatedCount + skippedCount = Len(newStudentsPayload)


\* Every store call that an import handler awaits settles, by resolving or
\* by rejecting, and every alert is closed.
callsSettleAndAlertsClose ==
    /\ []<>(awaited = <<>>)
    /\ []<>(pc /= "alert")

\* C18: every invocation of a batch import handler, which starts by
\* setting isLoading, ends with isLoading = false after exactly one alert
\* (the summary, the no-valid-data notice or the failure notice), on each
\* of its paths: when the store calls it awaits settle, whether they
\* resolve or reject, and its alert is closed, the handler eventually has
\* ended with one alert shown and isLoading = false; an invocation never
\* shows a second alert, the alert it shows is one of the three, and it
\* never ends without it.
C18_HandlerEndsWithOneAlert ==
    /\ callsSettleAndAlertsClose =>
          ((isLoading /\ handlerKind \in {"result", "student"})
              ~> (~isLoading /\ pc = "idle" /\ alertCount = 1))
    /\ [](alertCount <= 1)
    /\ []((pc = "idle" /\ handlerKind \in {"result", "student"}) =>
             (~isLoading /\ alertCount = 1
                /\ lastAlert \in {"summary", "novalid", "failure"}))
    /\ [](pc = "alert" =>
             (alertCount = 1 /\ alertShown \in {"summary", "novalid", "failure"}))

\* A roster import of a text without a valid row has ended: its one alert,
\* the no-valid-data notice, is closed and isLoading is false again.
C18_Witness ==
    /\ pc = "idle" /\ ~isLoading
    /\ handlerKind = "student"
    /\ lastAlert = "novalid"
    /\ alertCount = 1
    /\ rosterPayload(nonBlankLines(text)) = <<>>

\* A result import whose store call failed has ended, its failure notice
\* closed.
C18_FailurePath ==
    /\ pc = "idle" /\ ~isLoading
    /\ handlerKind = "result"
    /\ lastAlert = "failure"
    /\ alertCount = 1
    /\ failures = 1

\* A result import that wrote a result has ended, its summary closed.
C18_SuccessPath ==
    /\ pc = "idle" /\ ~isLoading
    /\ handlerKind = "result"
    /\ lastAlert = "summary"
    /\ alertCount = 1
    /\ failures = 0
    /\ \E d \in dbResults : d.id >= FirstFreshId


\* The line is a whitespace-separated result row whose scores are accepted:
\* it has fewer than three tab-separated fields and at least four words.
isMergedRow(line) ==
    /\ Len(tabParts(line)) < 3
    /\ Len(splitWs(trim(line))) >= 4
    /\ \E parts \in {resultParts(line)} :
          ~scoreRejected(parseInt(parts[2]), parseInt(parts[3]))

\* The positions of the exam definitions whose name is a case-insensitive
\* prefix of the merged field, and of those of them with the longest name.
prefixDefs(defs, mixedStr) ==
    {k \in 1..Len(defs) :
        startsWith(toLocaleLowerCaseTr(mixedStr), toLocaleLowerCaseTr(defs[k].name))}
longestPrefixDefs(defs, mixedStr) ==
    {k \in prefixDefs(defs, mixedStr) :
        \A j \in prefixDefs(defs, mixedStr) : Len(defs[j].name) <= Len(defs[k].name)}

\* The positions of the students whose normalized full name, in either
\* order, is the normalized `nameStr`.
namedStudents(studs, nameStr) ==
    {k \in 1..Len(studs) :
        \/ norm(fullName(studs[k].name, studs[k].surname)) = norm(nameStr)
        \/ norm(fullName(studs[k].surname, studs[k].name)) = norm(nameStr)}

\* The step on a merged row of which some definition's name is a prefix:
\* the exam is a definition of the longest such name, the student the one
\* named by the rest of the field, whose result the step goes on to write.
mergedRowResolved(defs, studs, mixedStr, correct, incorrect) ==
    \E k \in longestPrefixDefs(defs, mixedStr) :
        LET rest  == trim(substringFrom(mixedStr, Len(defs[k].name)))
            named == namedStudents(studs, rest)
        IN  /\ named = {} =>
                /\ skippedCount' = skippedCount + 1
                /\ awaited' = <<>>
            /\ named /= {} =>
                /\ skippedCount' = skippedCount
                /\ Len(awaited') = 1
                /\ awaited'[1].api \in {"apiAddExamResult", "apiUpdateExamResult"}
                /\ \E d \in {awaited'[1].data} :
                      /\ d.studentId = studs[firstIndex(named)].id
                      /\ \E j \in longestPrefixDefs(defs, mixedStr) : d.examId = defs[j].id
                      /\ d.correct = correct /\ d.incorrect = incorrect
                      /\ d.status = "ATTENDED"
            /\ writes' = writes
            /\ Range(tempExamDefs') = Range(tempExamDefs)

\* C19: the step of the result import on a whitespace-separated row: if
\* some exam definition's name is a case-insensitive prefix of the merged
\* field, the exam is such a definition of the longest name and the rest of
\* the field is the student name; if none is, the row is counted as
\* skipped, no store call is issued and no exam definition is created.
C19_MergedRow ==
    [][(pc = "result_loop" /\ isMergedRow(lines[lineIdx])) =>
        \E parts \in {resultParts(lines[lineIdx])} :
            /\ prefixDefs(tempExamDefs, parts[1]) /= {} =>
                  mergedRowResolved(tempExamDefs, tempStudents, parts[1],
                                    parseInt(parts[2]).value, parseInt(parts[3]).value)
            /\ prefixDefs(tempExamDefs, parts[1]) = {} =>
                  /\ skippedCount' = skippedCount + 1
                  /\ awaited' = <<>>
                  /\ writes' = writes
                  /\ Range(tempExamDefs') = Range(tempExamDefs)]_vars

\* C19 for the rows of which some definition's name is a prefix.
C19_LongestPrefix ==
    [][(pc = "result_loop" /\ isMergedRow(lines[lineIdx])) =>
        \E parts \in {resultParts(lines[lineIdx])} :
            prefixDefs(tempExamDefs, parts[1]) /= {} =>
                mergedRowResolved(tempExamDefs, tempStudents, parts[1],
                                  parseInt(parts[2]).value, parseInt(parts[3]).value)]_vars

\* The row "E12 Al Ve 8 2" has been written for the exam "E12", defined
\* next to "E1", which is a prefix of the field as well.
C19_LongestPrefixWitness ==
    /\ InResultImport
    /\ \E k \in 1..Len(tempExamDefs) : tempExamDefs[k].name = <<"E","1","2">>
    /\ \E d \in dbResults :
          /\ d.studentId = StudentA.id /\ d.examName = <<"E","1","2">>
          /\ d.correct = 8 /\ d.incorrect = 2


\* The positions of the students that come after a student of the same
\* normalized full name.
laterNamesakes(studs) ==
    LET names == [k \in 1..Len(studs) |-> norm(fullName(studs[k].name, studs[k].surname))]
    IN  {j \in 1..Len(studs) : \E i \in 1..(j - 1) : names[i] = names[j]}

\* The ids of the students recorded as seen for some exam.
seenIds(processed) == UNION {processed[k][2] : k \in 1..Len(processed)}

\* The positions of the students the row names, none for a row that names
\* no student.
namesakesOf(row) ==
    IF row.kind = "named" THEN namedStudents(tempStudents, row.studentNameStr) ELSE {}

\* The line the result import is at carries a name that two students have
\* and names an exam.
namesakeLine ==
    \E row \in {identifyRow(lines[lineIdx], tempExamDefs, tempStudents)} :
        Cardinality(namesakesOf(row)) >= 2 /\ Len(row.examNameStr) > 0

\* The result write that is awaited is that of the row of the line for the
\* first of the students of its name, who is recorded as seen.
firstNamesakeWritten ==
    \E row \in {identifyRow(lines[lineIdx], tempExamDefs, tempStudents)} :
    \E firstId \in {tempStudents[firstIndex(namesakesOf(row))].id} :
        /\ awaited[1].data.studentId = firstId
        /\ awaited[1].data.correct = row.correct
        /\ awaited[1].data.incorrect = row.incorrect
        /\ firstId \in seenIds(processedExamStudentIds)

\* C20: in a result import over students of whom two have the same
\* normalized full name, a row carrying that name reaches the result write
\* unless the store rejects a call, the write is that of the result of the
\* first of them in snapshot order, who is recorded as seen, and a write
\* that succeeds puts the result in the store and reports no error; and the
\* later one is never recorded as seen, and the only results the batch
\* writes for the later one are MISSING results of the auto-absent step.
C20_FirstNamesakeWins ==
    /\ [][(pc = "result_loop" /\ namesakeLine)
            => (pc' = "result_await_def" \/ pc' = "result_await_res")]_vars
    /\ [][(pc = "result_await_def" /\ writes' /= writes /\ namesakeLine) =>
            IF writes'[Len(writes')].ok THEN pc' = "result_await_res"
            ELSE alertShown' = "failure"]_vars
    /\ []((pc = "result_await_res" /\ namesakeLine) => firstNamesakeWritten)
    /\ [][(pc = "result_await_res" /\ writes' /= writes /\ namesakeLine) =>
            IF writes'[Len(writes')].ok
            THEN awaited[1].data \in dbResults' /\ alertShown' /= "failure"
            ELSE alertShown' = "failure"]_vars
    /\ [](InResultImport =>
            \A j \in laterNamesakes(tempStudents) :
                /\ tempStudents[j].id \notin seenIds(processedExamStudentIds)
                /\ \A d \in dbResults :
                      (d.id \in writtenIds /\ d.studentId = tempStudents[j].id)
                          => d.status = "MISSING")

\* A result import over two students named Al Ve has ended: the row of
\* that name was written for the first of them, only the first was seen,
\* and the second was marked absent for the exam.
C20_Witness ==
    /\ ResultImportDone
    /\ laterNamesakes(students) = {5}
    /\ StudentA.id \in seenIds(processedExamStudentIds)
    /\ \E d \in dbResults :
          /\ d.id \in writtenIds /\ d.studentId = StudentA.id
          /\ d.status = "ATTENDED"
    /\ \E d \in dbResults :
          /\ d.id \in writtenIds /\ d.studentId = StudentA2.id
          /\ d.status = "MISSING"


\* The normalization the importers are specified to compare names with:
\* trimmed, lower-cased by the Turkish rules, every run of white space
\* between words collapsed to one blank.
collapsedNorm(str) == join(splitWs(toLocaleLowerCaseTr(trim(str))), <<" ">>)

\* The comparisons of the importers that decide which classroom, student
\* or exam definition a name is.
identityComparisons == {"rosterClass", "rosterStudent", "resultExam", "resultStudent"}

\* C21: two spellings of a name that differ only in case, in the white
\* space around them or in the number of blanks between the words resolve
\* to the same classroom, student or exam definition in each comparison of
\* the two importers, and norm applied twice returns what norm returns.
C21_OneNormalization ==
    \A o \in answer :
        /\ o[1] = "norm" => o[2] = o[3]
        /\ (o[1] \in identityComparisons
              /\ collapsedNorm(probe[1]) = collapsedNorm(probe[2])) => o[2] = o[3]

\* The comparisons of the roster import and the exam comparison of the
\* result import agree on such spellings, and norm is idempotent.
C21_ButStudentOfResultRow ==
    \A o \in answer :
        /\ o[1] = "norm" => o[2] = o[3]
        /\ (o[1] \in identityComparisons \ {"resultStudent"}
              /\ collapsedNorm(probe[1]) = collapsedNorm(probe[2])) => o[2] = o[3]


\* The confirmed deletion of the student has run to its end, and the store
\* has accepted every call of the handlers of the views.
StudentDeleted(id) ==
    /\ \E k \in 1..Len(viewCalls) :
          viewCalls[k] = storeCall("apiDeleteStudent", id, TRUE)
    /\ \A i \in 1..Len(pending) : pending[i].handler /= "deleteStudent"
    /\ \A k \in 1..Len(viewCalls) : viewCalls[k].ok

\* The ids of the students a deletion was confirmed for.
deletedStudentIds ==
    {viewCalls[k].id : k \in {j \in 1..Len(viewCalls) :
                                 viewCalls[j].api = "apiDeleteStudent"}}

\* C22: after a confirmed student deletion in which every store call
\* succeeds, neither the lists nor the store hold the student or a result
\* of the student.
C22_StudentDeletedWithResults ==
    \A id \in deletedStudentIds :
        StudentDeleted(id) =>
            /\ \A k \in 1..Len(students) : students[k].id /= id
            /\ \A k \in 1..Len(exams) : exams[k].studentId /= id
            /\ \A d \in dbStudents : d.id /= id
            /\ \A d \in dbResults : d.studentId /= id

\* When no store call has failed and every handler started with no store
\* call of another handler outstanding, the deletion leaves no result of the
\* student behind.
C22_ButWithoutOverlap ==
    (failures = 0 /\ ~overlapped) =>
        \A id \in deletedStudentIds :
            StudentDeleted(id) =>
                /\ \A k \in 1..Len(students) : students[k].id /= id
                /\ \A k \in 1..Len(exams) : exams[k].studentId /= id
                /\ \A d \in dbStudents : d.id /= id
                /\ \A d \in dbResults : d.studentId /= id

\* A deletion of a student with a result has run to its end with no handler
\* overlapping another.
C22_ButWithoutOverlapWitness ==
    /\ failures = 0 /\ ~overlapped
    /\ \E k \in 1..Len(viewCalls) :
          /\ viewCalls[k].api = "apiDeleteExamResult" /\ viewCalls[k].ok
    /\ \E id \in deletedStudentIds : StudentDeleted(id)


\* The ids of the exam definitions whose confirmed deletion the store has
\* accepted.
deletedDefinitionIds ==
    {viewCalls[k].id : k \in {j \in 1..Len(viewCalls) :
                                 /\ viewCalls[j].api = "apiDeleteExamDefinition"
                                 /\ viewCalls[j].ok}}

\* C23: after a confirmed deletion of an exam definition no result of that
\* exam is left in the list or in the store.
C23_ResultsCascade ==
    \A id \in deletedDefinitionIds :
        /\ \A k \in 1..Len(exams) : exams[k].examId /= id
        /\ \A d \in dbResults : d.examId /= id

\* The store call of a confirmed deletion of an exam definition settles in
\* this step.
DefinitionDeletionSettled ==
    /\ viewCalls' /= viewCalls
    /\ viewCalls'[Len(viewCalls')].api = "apiDeleteExamDefinition"

\* What handleDeleteExamDefinition does: a confirmed deletion of an exam
\* definition that the store accepts removes the definition from the list
\* and from the store and keeps every result, those of that exam included,
\* in the list and in the store; students and classrooms are untouched.  When the store
\* rejects the call nothing changes; nor does anything when the deletion is
\* confirmed and its call is issued.
C23_DefinitionDeletedResultsKept ==
    /\ [][DefinitionDeletionSettled =>
            \E c \in {viewCalls'[Len(viewCalls')]} :
                /\ exams' = exams /\ dbResults' = dbResults
                /\ students' = students /\ dbStudents' = dbStudents
                /\ classes' = classes /\ dbClasses' = dbClasses
                /\ IF c.ok
                   THEN /\ examDefinitions'
                             = SelectSeq(examDefinitions, LAMBDA e : e.id /= c.id)
                        /\ dbDefs' = {d \in dbDefs : d.id /= c.id}
                        /\ \A d \in dbDefs' : d.id /= c.id
                   ELSE examDefinitions' = examDefinitions /\ dbDefs' = dbDefs]_vars
    /\ [][(dialog.handler = "deleteExamDefinition" /\ pending' /= pending
             /\ dialog'.kind = "none") =>
            /\ <<students', classes', exams', examDefinitions'>>
                  = <<students, classes, exams, examDefinitions>>
            /\ <<dbStudents', dbClasses', dbResults', dbDefs'>>
                  = <<dbStudents, dbClasses, dbResults, dbDefs>>]_vars

\* The definition of an exam was deleted and a result of that exam is still
\* in the list and in the store.
C23_Witness ==
    \E id \in deletedDefinitionIds :
        /\ \A k \in 1..Len(examDefinitions) : examDefinitions[k].id /= id
        /\ \A d \in dbDefs : d.id /= id
        /\ \E k \in 1..Len(exams) :
              exams[k].examId = id /\ exams[k] \in dbResults


\* The rows of a list that are not MISSING, and those of one student.
withoutAbsent(rows) == SelectSeq(rows, LAMBDA e : e.status /= "MISSING")
rowsOfStudent(rows, studentId) == SelectSeq(rows, LAMBDA e : e.studentId = studentId)
rowsOfExam(rows, def) ==
    SelectSeq(rows, LAMBDA e : e.examId = def.id \/ e.examName = def.name)

\* The exam filter of the student list: all exams (0) or one definition.
examFilters(defs) == {0} \cup {defs[i].id : i \in 1..Len(defs)}

\* The four averaged statistics of a student.
averaged(st) == <<st.examCount, st.averageNet, st.averageCorrect, st.averageIncorrect>>

\* The rounding errors of the exam averages, where none is read.
noFpErrors(defs) == [k \in 1..Len(defs) |-> 0]

\* A step changes none of these averages unless it changes the rows that
\* are not MISSING among those the average is taken over.
missingRowsLeaveAverages ==
    (exams' /= exams \/ students' /= students
        \/ examDefinitions' /= examDefinitions) =>
    \A fpError \in FpErrors :
        /\ \A i \in 1..Len(students), j \in 1..Len(students') :
              (/\ students[i].id = students'[j].id
               /\ withoutAbsent(rowsOfStudent(exams', students[i].id))
                    = withoutAbsent(rowsOfStudent(exams, students[i].id))) =>
              \A f \in examFilters(examDefinitions) :
                  averaged(studentStats(students'[j], exams', f, fpError))
                    = averaged(studentStats(students[i], exams, f, fpError))
        /\ withoutAbsent(exams') = withoutAbsent(exams) =>
              /\ stats(students', exams', examDefinitions', fpError,
                       noFpErrors(examDefinitions')).globalAvgNet
                   = stats(students, exams, examDefinitions, fpError,
                           noFpErrors(examDefinitions)).globalAvgNet
              /\ stats(students', exams', examDefinitions', fpError,
                       noFpErrors(examDefinitions')).totalExams
                   = stats(students, exams, examDefinitions, fpError,
                           noFpErrors(examDefinitions)).totalExams
        /\ \A k \in 1..Len(examDefinitions) :
              withoutAbsent(rowsOfExam(exams', examDefinitions[k]))
                    = withoutAbsent(rowsOfExam(exams, examDefinitions[k])) =>
              examStat(examDefinitions[k], attendedRows(exams'), fpError)
                = examStat(examDefinitions[k], attendedRows(exams), fpError)

\* The count is that of the rows that are not MISSING, and averages over
\* no such row are 0.
averagesOverAttended ==
    \A fpError \in FpErrors :
        /\ \A i \in 1..Len(students) :
              LET st   == studentStats(students[i], exams, 0, fpError)
                  rows == withoutAbsent(rowsOfStudent(exams, students[i].id))
              IN  /\ st.examCount = Len(rows)
                  /\ rows = <<>> => averaged(st) = <<0, 0, 0, 0>>
                  /\ (Len(rows) = 1) =>
                        averaged(st) = <<1, rows[1].net, 10 * rows[1].correct,
                                         10 * rows[1].incorrect>>
        /\ \A examFpErrors \in [1..Len(examDefinitions) -> FpErrors] :
              LET all == stats(students, exams, examDefinitions, fpError,
                               examFpErrors)
              IN  /\ all.totalExams = Len(withoutAbsent(exams))
                  /\ withoutAbsent(exams) = <<>> => all.globalAvgNet = 0
                  /\ \A k \in 1..Len(examDefinitions) :
                        withoutAbsent(rowsOfExam(exams, examDefinitions[k])) = <<>> =>
                           \E e \in Range(all.examStats) :
                               e.name = examDefinitions[k].name /\ e.avgNet = 0

\* C24: MISSING results are excluded from every average.  examCount,
\* averageNet, averageCorrect and averageIncorrect of a student, the global
\* average net and the average net of each exam are taken over the rows
\* that are not MISSING: a step that adds or removes only MISSING rows
\* leaves them as they are, and over no such row they are 0.
C24_MissingExcluded ==
    /\ [][missingRowsLeaveAverages]_vars
    /\ []averagesOverAttended

\* A batch import has marked absent a student who has an attended result:
\* the student has two rows and the averages of one.
C24_Witness ==
    /\ handlerKind = "result" /\ pc = "alert" /\ alertShown = "summary"
    /\ \E i \in 1..Len(students) :
          LET rows == rowsOfStudent(exams, students[i].id)
          IN  /\ Len(rows) = 2
              /\ rows[1].status = "ATTENDED" /\ rows[2].status = "MISSING"
              /\ rows[2].id >= FirstFreshId
              /\ studentStats(students[i], exams, 0, 0).examCount = 1
              /\ studentStats(students[i], exams, 0, 0).averageNet = rows[1].net


\* A student as the class-reassignment reconciler may not change it.
withoutClassroom(student) == [student EXCEPT !.classroomId = 0]

\* The rows of the text that name no student of the list.
unmatchedRows(rows, studs) ==
    SelectSeq(rows, LAMBDA r :
        \A k \in 1..Len(studs) :
            \/ collapsedNorm(studs[k].name) /= collapsedNorm(r.name)
            \/ collapsedNorm(studs[k].surname) /= collapsedNorm(r.surname))

\* C25: the class-reassignment reconciler never creates a student.  A row
\* whose name matches no existing student is counted as notFound and
\* changes no student; the students keep all but their classroomId, the
\* store gets no student document and no write other than updateStudent
\* and createClassroom, one updateStudent per counted update; the output is
\* {updated, notFound}.
C25_ReassignNeverCreates ==
    [][(handlerKind' = "classChange" /\ nImports' = nImports + 1) =>
         LET rows == rosterPayload(nonBlankLines(text'))
         IN  /\ DOMAIN answer' = {"updated", "notFound"}
             /\ Len(students') = Len(students)
             /\ \A k \in 1..Len(students) :
                   withoutClassroom(students'[k]) = withoutClassroom(students[k])
             /\ {d.id : d \in dbStudents'} = {d.id : d \in dbStudents}
             /\ {withoutClassroom(d) : d \in dbStudents'}
                   = {withoutClassroom(d) : d \in dbStudents}
             /\ answer'.notFound = Len(unmatchedRows(rows, students))
             /\ answer'.updated
                   = Cardinality({k \in 1..Len(writes') :
                                     writes'[k].api = "updateStudent"})
             /\ \A k \in 1..Len(writes') :
                   writes'[k].api \in {"updateStudent", "createClassroom"}
             /\ answer'.updated = 0 => students' = students
             /\ answer'.updated + answer'.notFound <= Len(rows)]_vars

\* A text of two rows was reconciled: one moved a student to class 8B, the
\* other named no student and was counted as not found.
C25_Witness ==
    /\ handlerKind = "classChange"
    /\ answer = [updated |-> 1, notFound |-> 1]
    /\ Len(students) >= 4
    /\ students[1].classroomId = 2


\* The line the result import is at names, as its student, a name that is
\* the normalized full name of no student, in either order.
lineNamesUnknownStudent(line, defs, studs) ==
    \E row \in {identifyRow(line, defs, studs)} :
        /\ row.kind = "named"
        /\ \A k \in 1..Len(studs) :
              /\ norm(fullName(studs[k].name, studs[k].surname)) /= norm(row.studentNameStr)
              /\ norm(fullName(studs[k].surname, studs[k].name)) /= norm(row.studentNameStr)

\* No step of a result import changes the students or the classrooms, in
\* the lists or in the store, and the import calls the store for exam
\* definitions and results only.
resultImportKeepsRoster ==
    /\ [][(handlerKind = "result" /\ ImportStepTaken) =>
            /\ students' = students /\ dbStudents' = dbStudents
            /\ classes' = classes /\ dbClasses' = dbClasses]_vars
    /\ [](InResultImport =>
            /\ \A k \in 1..Len(writes) :
                  writes[k].api \in {"apiAddExamDefinition", "apiAddExamResult",
                                     "apiUpdateExamResult"}
            /\ \A k \in 1..Len(awaited) :
                  awaited[k].api \in {"apiAddExamDefinition", "apiAddExamResult",
                                      "apiUpdateExamResult"})

\* C26: a result import never creates, updates or deletes a student or a
\* classroom, and the step on a row whose student name matches no student
\* counts the row as skipped and issues no store call.
C26_UnknownStudentWritesNothing ==
    /\ resultImportKeepsRoster
    /\ [][(pc = "result_loop"
             /\ lineNamesUnknownStudent(lines[lineIdx], tempExamDefs, tempStudents))
           => /\ awaited' = <<>>
              /\ writes' = writes
              /\ skippedCount' = skippedCount + 1
              /\ lineIdx' = lineIdx + 1]_vars

\* The same for the rows whose exam name is empty or the name of an exam
\* definition.
C26_UnknownStudentOfKnownExam ==
    /\ resultImportKeepsRoster
    /\ [][(pc = "result_loop"
             /\ lineNamesUnknownStudent(lines[lineIdx], tempExamDefs, tempStudents)
             /\ ~lineNamesUnknownExam(lines[lineIdx], tempExamDefs, tempStudents))
           => /\ awaited' = <<>>
              /\ writes' = writes
              /\ skippedCount' = skippedCount + 1
              /\ lineIdx' = lineIdx + 1]_vars


\* The name, surname and class of a roster row of n words: the first n - 2
\* words joined by one blank, the word before the last (none for two
\* words), the last word.
tripleOfWords(words) ==
    LET n == Len(words)
    IN  <<join(SubSeq(words, 1, IF n >= 3 THEN n - 2 ELSE 1), <<" ">>),
          IF n >= 3 THEN words[n - 1] ELSE <<>>,
          words[n]>>

\* The first three of the four things read from a roster line.
tripleRead(read) == <<read[1], read[2], read[3]>>

\* What the tokenizer read from the rows of the first spelling of the probe.
readAs(kind) == {o[2] : o \in {a \in answer : a[1] = kind}}

\* C27, the rows separated by blanks: class is the last word, surname the
\* word before it (empty on a row of two words), name the words before
\* them joined by one blank.
spacedRowTokens ==
    \A read \in readAs("spaced") :
        tripleRead(read) = tripleOfWords(splitWs(trim(probe[1])) \o << <<"8","A">> >>)

\* C27: a roster row separated by blanks is read as above, and the same row
\* pasted with tabs, as name, surname and class or as full name and class,
\* is read as the same name, surname and class and finds the same student.
C27_RosterTokens ==
    /\ spacedRowTokens
    /\ \A spaced \in readAs("spaced") :
          /\ \A read \in readAs("columns") : read = spaced
          /\ \A read \in readAs("fullName") : read = spaced

\* The same without the rows pasted as the two columns full name and class.
C27_ButFullNameColumn ==
    /\ spacedRowTokens
    /\ \A spaced \in readAs("spaced") :
          \A read \in readAs("columns") : read = spaced


\* The positions, in the working copy of a result import, of the MISSING
\* results that were not there when the batch started.
absentCreated ==
    {i \in 1..Len(tempResults) :
        /\ tempResults[i].status = "MISSING"
        /\ \A k \in 1..Len(startExams) : startExams[k].id /= tempResults[i].id}

\* The classrooms of the students of whom the batch wrote an ATTENDED result
\* for the exam.
acceptedClassrooms(examId) ==
    {tempStudents[s].classroomId :
        s \in {n \in 1..Len(tempStudents) :
                 \E j \in 1..Len(tempResults) :
                    /\ tempResults[j].status = "ATTENDED"
                    /\ tempResults[j].examId = examId
                    /\ tempResults[j].id \in writtenIds
                    /\ tempResults[j].studentId = tempStudents[n].id}}

\* C28: throughout a result import, every MISSING result the batch created
\* is of a student whose classroom is the classroom of a student of whom the
\* batch accepted a row for the same exam, so that no student of another
\* classroom and no exam without an accepted row gets one; and the batch
\* creates at most one MISSING result for a student and an exam.
C28_AbsentOnlyInvolved ==
    InResultImport =>
        /\ \A i \in absentCreated :
             \E s \in 1..Len(tempStudents) :
                /\ tempStudents[s].id = tempResults[i].studentId
                /\ tempStudents[s].classroomId
                     \in acceptedClassrooms(tempResults[i].examId)
        /\ \A i, j \in absentCreated :
             /\ tempResults[i].studentId = tempResults[j].studentId
             /\ tempResults[i].examId = tempResults[j].examId
             => i = j

\* A batch has marked a student of classroom 8A absent from an exam, has
\* run through the auto-absent step, and the student of classroom 8B, who
\* had no result for the exam either, has none.
C28_Witness ==
    /\ ResultImportDone
    /\ \E i \in absentCreated :
         /\ tempResults[i].studentId \in {StudentB.id, StudentC.id}
         /\ \A j \in 1..Len(tempResults) :
              ~(/\ tempResults[j].studentId = StudentD.id
                /\ tempResults[j].examId = tempResults[i].examId)
         /\ \A j \in 1..Len(tempResults) :
              tempResults[j].examId /= tempResults[i].examId
                 => tempResults[j].id \notin writtenIds


\* The scores at the end of line l are not two numbers of sum at most ten.
scoresRefused(l) ==
    LET parts == resultParts(lines[l])
        n     == Len(parts)
    IN  /\ n >= 3
        /\ \/ parseInt(parts[n - 1]).nan
           \/ parseInt(parts[n]).nan
           \/ parseInt(parts[n - 1]).value + parseInt(parts[n]).value > QuestionCount

\* Line l has the exam, the student at the position and two scores in
\* fields of their own, and the scores are refused.
refusedListing(l, position, examId) ==
    LET parts == resultParts(lines[l])
        n     == Len(parts)
    IN  /\ scoresRefused(l)
        /\ n >= 4
        /\ resolveStudent(tempStudents, parts[n - 2]) = position
        /\ \E d \in {resolveExam(startDefs, join(SubSeq(parts, 1, n - 3), <<" ">>))} :
             d > 0 /\ startDefs[d].id = examId

\* Line l is read as a row of the exam and of the student at the position,
\* and its scores are taken.
acceptedListing(l, position, examId) ==
    \E row \in {identifyRow(lines[l], startDefs, tempStudents)} :
        /\ ~scoresRefused(l)
        /\ row.kind = "named"
        /\ resolveStudent(tempStudents, row.studentNameStr) = position
        /\ \E d \in {resolveExam(row.defs, row.examNameStr)} :
             d > 0 /\ row.defs[d].id = examId

\* The student at the position is listed for the exam, and only on rows
\* whose scores are refused.
onlyOnRefusedRows(position, examId) ==
    /\ \E l \in 1..Len(lines) : refusedListing(l, position, examId)
    /\ \A l \in 1..Len(lines) : ~acceptedListing(l, position, examId)

\* A student of the same classroom is listed for the exam on a row whose
\* scores are taken.
classmateAccepted(position, examId) ==
    \E other \in 1..Len(tempStudents), l \in 1..Len(lines) :
        /\ other /= position
        /\ tempStudents[other].classroomId = tempStudents[position].classroomId
        /\ acceptedListing(l, other, examId)

\* C29: when a result import completes, a student listed for an exam only
\* on rows whose scores were rejected is not among the students seen for
\* the exam; and when a classmate has an accepted row for the exam and the
\* student had no result for it at the start of the batch, the student has
\* exactly one result for it, MISSING and written by the batch.
C29_RejectedRowNotSeen ==
    ResultImportDone =>
        \A position \in 1..Len(tempStudents), d \in 1..Len(startDefs) :
            onlyOnRefusedRows(position, startDefs[d].id) =>
                /\ mapHas(processedExamStudentIds, startDefs[d].id) =>
                     tempStudents[position].id
                        \notin mapGet(processedExamStudentIds, startDefs[d].id)
                /\ /\ classmateAccepted(position, startDefs[d].id)
                   /\ pairRows(startExams, tempStudents[position].id,
                               startDefs[d].id) = {}
                   => \E i \in 1..Len(tempResults) :
                        /\ pairRows(tempResults, tempStudents[position].id,
                                    startDefs[d].id) = {i}
                        /\ tempResults[i].status = "MISSING"
                        /\ tempResults[i].id \in writtenIds

\* A batch with a row of refused scores for Ay De and an accepted row for
\* a classmate, both of exam E1, has completed, and Ay De has a MISSING
\* result for E1 that was not there before.
C29_Witness ==
    /\ ResultImportDone
    /\ \E position \in 1..Len(tempStudents) :
         /\ tempStudents[position].id = StudentB.id
         /\ onlyOnRefusedRows(position, ExamE1.id)
         /\ classmateAccepted(position, ExamE1.id)
         /\ \E i \in absentCreated :
              /\ tempResults[i].studentId = StudentB.id
              /\ tempResults[i].examId = ExamE1.id


\* A step of the initial load in which the store rejected a read.
loadRejected == pc = "load" /\ pc' = "idle" /\ failures' > failures

\* The collections on screen are all empty.
nothingLoaded ==
    students = <<>> /\ classes = <<>> /\ exams = <<>> /\ examDefinitions = <<>>

\* C30: an initial load in which the store rejects a read ends on the error
\* screen, with the message set and the loading screen left, and not in a
\* data view over empty collections.
C30_LoadFailureShown ==
    [][loadRejected => (errorMsg' /= "none" /\ ~isLoading')]_vars

\* An initial load in which every read succeeded has left the loading
\* screen with the four collections of the store on screen.
C30_LoadedFromStore ==
    /\ handlerKind = "initData" /\ ~isLoading /\ failures = 0
    /\ ~nothingLoaded
    /\ Range(students) = dbStudents /\ Range(exams) = dbResults
=============================================================================
